---- MODULE Spec2Model ----
(***************************************************************************)
(* Image-Proccessing server: the transform / variant-cache subsystem.      *)
(*                                                                         *)
(*   ImagesService          server/src/images/images.service.ts            *)
(*   ImagesController       images.controller.ts   (unnamed/part_002)      *)
(*   TransformRateLimitGuard guards/transform-rate-limit.guard.ts          *)
(*                                                  (unnamed/part_004)      *)
(*   ImageStorageService    image-storage.service.ts (unnamed/part_001)    *)
(*   Image / ImageVariant   schema/image.schema.ts  (unnamed/part_004)     *)
(*                                                                         *)
(* The Node.js process is single threaded: the code between two awaits     *)
(* runs without interleaving, so every action below is one such stretch of *)
(* a request (or a whole synchronous callback such as the guard).  The     *)
(* MongoDB collection and the S3 bucket are the shared state that the      *)
(* awaits read and write.                                                  *)
(***************************************************************************)
EXTENDS Integers, Sequences, FiniteSets, TLC

VARIABLES
    images,         \* MongoDB collection 'image': imageId -> document | NoDoc
    minted,         \* number of ObjectIds handed out to new documents
    blob,           \* the S3 bucket: storage key -> object body
    req,            \* the HTTP requests in flight, one record per slot
    calls,          \* number of HTTP requests received so far
    requestsByKey,  \* TransformRateLimitGuard.requestsByKey
    config,         \* TransformRateLimitGuard.config
    now,            \* Date.now()
    allowedLog,     \* history: per key, the times of the calls the guard let pass
    lastGuard,      \* history: the guard's most recent call and its outcome
    lastDone,       \* history: per image, the last response a handler returned for it
    purged,         \* history: the images whose objects a delete has removed from S3
    hashIn,         \* hashing harness: the pair of specs handed in
    hashOut,        \* hashing harness: the pair of hashes computed
    callIn,         \* a private method called on its own: its arguments
    callOut,        \* a private method called on its own: what it returned
    editor,         \* the editor page (Home): its React state and applySequence
    pending         \* the editor page: the fetches it awaits

vars == <<images, minted, blob, req, calls, requestsByKey, config, now,
          allowedLog, lastGuard, lastDone, purged, hashIn, hashOut,
          callIn, callOut, editor, pending>>

serviceVars == <<images, minted, blob, req, calls, lastDone, purged>>
guardVars   == <<requestsByKey, config, now, allowedLog, lastGuard>>
hashVars    == <<hashIn, hashOut>>
unitVars    == <<callIn, callOut>>
editorVars  == <<editor, pending>>

-----------------------------------------------------------------------------
(* JavaScript values of a TransformationsDto.  An object is the sequence of *)
(* its own enumerable properties in insertion order, which is the order     *)
(* Object.keys and JSON.stringify enumerate (no key here is integer-like).  *)

Num(n)  == [t |-> "num",   n |-> n, s |-> "", o |-> <<>>]
Bool(b) == [t |-> "bool",  n |-> IF b THEN 1 ELSE 0, s |-> "", o |-> <<>>]
Str(s)  == [t |-> "str",   n |-> 0, s |-> s,  o |-> <<>>]
Undef   == [t |-> "undef", n |-> 0, s |-> "", o |-> <<>>]
Null    == [t |-> "null",  n |-> 0, s |-> "", o |-> <<>>]
Obj(ps) == [t |-> "obj",   n |-> 0, s |-> "", o |-> ps]
P(k, v) == [k |-> k, v |-> v]

IsObj(v) == v.t = "obj"

\* Object.keys(o)
Keys(o) == [i \in 1..Len(o.o) |-> o.o[i].k]

HasKey(o, k) == \E i \in 1..Len(o.o) : o.o[i].k = k

\* o[k]; undefined when the property is absent
Get(o, k) ==
    IF HasKey(o, k)
    THEN (o.o[CHOOSE i \in 1..Len(o.o) : o.o[i].k = k]).v
    ELSE Undef

\* The property names of the DTO classes, in the order Array.prototype.sort()
\* puts them (UTF-16 code unit order).
KeyOrder ==
    << "compress", "crop", "filters", "fit", "flip", "fontSize", "format",
       "grayscale", "height", "mirror", "opacity", "position", "quality",
       "resize", "rotate", "sepia", "text", "watermark", "width", "x", "y" >>

KeyRank(k) == CHOOSE i \in 1..Len(KeyOrder) : KeyOrder[i] = k

\* keys.sort() left out: the keys stay in insertion order
SortKeysUnsorted(ks) == ks

\* Object.keys(record).sort()
SortKeys(ks) ==
    LET n == Len(ks)
        \* position of ks[i] in the sorted array (keys of an object are distinct)
        pos(i) == Cardinality({j \in 1..n : KeyRank(ks[j]) < KeyRank(ks[i])}) + 1
    IN  [p \in 1..n |-> ks[CHOOSE i \in 1..n : pos(i) = p]]

\* JSON.stringify of a primitive.  JSON.stringify(undefined) is undefined,
\* which a template literal renders as the text "undefined".
JsonPrimitive(v) ==
    CASE v.t = "num"  -> ToString(v.n)
      [] v.t = "bool" -> (IF v.n = 1 THEN "true" ELSE "false")
      [] v.t = "str"  -> "\"" \o v.s \o "\""
      [] v.t = "null" -> "null"
      [] OTHER        -> "undefined"

RECURSIVE JoinComma(_)
JoinComma(ss) ==
    IF Len(ss) = 0 THEN ""
    ELSE IF Len(ss) = 1 THEN ss[1]
    ELSE ss[1] \o "," \o JoinComma(Tail(ss))

\* JSON.parse(JSON.stringify(x)) that keeps the properties whose value is undefined
RECURSIVE ToPlainKeepUndefined(_)
ToPlainKeepUndefined(v) ==
    IF IsObj(v)
    THEN Obj([i \in 1..Len(v.o) |-> P(v.o[i].k, ToPlainKeepUndefined(v.o[i].v))])
    ELSE v

\* toPlainTransformations: JSON.parse(JSON.stringify(transformations)).
\* JSON.stringify leaves out every property whose value is undefined, at
\* every nesting level, and keeps the others in insertion order.
RECURSIVE toPlainTransformations(_)
toPlainTransformations(v) ==
    IF IsObj(v)
    THEN LET kept == SelectSeq(v.o, LAMBDA p : p.v.t # "undef")
         IN  Obj([i \in 1..Len(kept) |->
                    P(kept[i].k, toPlainTransformations(kept[i].v))])
    ELSE v

\* stableStringify.  (The Array branch is not modelled: no field of
\* TransformationsDto is an array.)
RECURSIVE stableStringify(_)
stableStringify(v) ==
    IF IsObj(v)
    THEN LET keys == SortKeys(Keys(v))
         IN  "{" \o JoinComma([i \in 1..Len(keys) |->
                       "\"" \o keys[i] \o "\":" \o stableStringify(Get(v, keys[i]))])
                 \o "}"
    ELSE JsonPrimitive(v)

\* createHash('sha256').update(stable).digest('hex').slice(0, 20): the digest
\* is taken as a function of its input that tells different inputs apart.
Sha256Hex20(stable) == "h" \o stable

\* hashTransformations
hashTransformations(plain) == Sha256Hex20(stableStringify(plain))

\* variantHash of a request body, as transformImage / saveTransformedImage
\* compute it (lines 228-229, 270-271)
VariantHashOf(transformations) ==
    hashTransformations(toPlainTransformations(transformations))

-----------------------------------------------------------------------------
(* TransformRateLimitGuard (unnamed/part_004, lines 97-144)                 *)

Max(a, b) == IF a >= b THEN a ELSE b
Min(a, b) == IF a <= b THEN a ELSE b

\* the size at which cleanup starts to sweep (line 130)
CleanupThreshold == 2000

\* const key = `${userId}:${imageId}` (line 109)
\* a key that leaves the user out: one counter per image
GuardKeyImageOnly(userId, imageId) == "anonymous:" \o imageId

GuardKey(userId, imageId) == userId \o ":" \o imageId

\* A JavaScript number of the configuration: an integer or NaN
JsNumber(n) == [nan |-> FALSE, n |-> n]
NaN         == [nan |-> TRUE, n |-> 0]

\* Math.max(a, b): NaN when an argument is NaN
MathMax(a, b) == IF a.nan \/ b.nan THEN NaN ELSE JsNumber(Max(a.n, b.n))

\* the values the two environment variables are given
EnvValues == {"60000", "20", "2", "0", "-5", "", "60s", "twenty"}

\* Number(process.env.X) (lines 101-102) for the values explored: the number
\* a numeric string denotes, 0 for the empty string, NaN for any other text
Number(text) ==
    CASE text = "60000" -> JsNumber(60000)
      [] text = "20"    -> JsNumber(20)
      [] text = "2"     -> JsNumber(2)
      [] text = "0"     -> JsNumber(0)
      [] text = "-5"    -> JsNumber(-5)
      [] text = ""      -> JsNumber(0)
      [] OTHER          -> NaN

\* the smallest window and the smallest maximum (lines 112 and 116)
MinWindowMs == 1000
MinMaxRequests == 1

\* Math.max(this.config.windowMs, 1_000) (lines 112, 134)
EffectiveWindow == MathMax(config.windowMs, JsNumber(MinWindowMs))

\* Math.max(this.config.maxRequests, 1) (line 116)
EffectiveMax == MathMax(config.maxRequests, JsNumber(MinMaxRequests))

\* their values when they are numbers
EffectiveWindowMs == EffectiveWindow.n
EffectiveMaxRequests == EffectiveMax.n

\* this.requestsByKey.get(key) ?? [] (line 113)
Existing(map, key) == IF key \in DOMAIN map THEN map[key] ELSE <<>>

\* a filter that drops the timestamp lying exactly on the window start
InWindowStrict(seq, t) ==
    SelectSeq(seq, LAMBDA ts : ~EffectiveWindow.nan /\ ts > t - EffectiveWindowMs)

\* timestamps.filter((timestamp) => timestamp >= windowStart) (lines 114, 136);
\* a comparison with NaN is false
InWindow(seq, t) ==
    SelectSeq(seq, LAMBDA ts : ~EffectiveWindow.nan /\ ts >= t - EffectiveWindowMs)

\* validRequests (line 114)
ValidRequests(map, key, t) == InWindow(Existing(map, key), t)

\* a check that lets one call too many through
GuardRejectsOffByOne(map, key, t) ==
    ~EffectiveMax.nan /\ Len(ValidRequests(map, key, t)) > EffectiveMaxRequests

\* the condition under which canActivate throws 429 (line 116); a
\* comparison with NaN is false
GuardRejects(map, key, t) ==
    ~EffectiveMax.nan /\ Len(ValidRequests(map, key, t)) >= EffectiveMaxRequests

\* Map.prototype.set
MapSet(map, key, val) ==
    [k \in DOMAIN map \cup {key} |-> IF k = key THEN val ELSE map[k]]

\* a sweep that forgets the window: it keeps the timestamps of the current
\* millisecond only
cleanupWithoutWindow(map, t) ==
    IF Cardinality(DOMAIN map) < CleanupThreshold
    THEN map
    ELSE LET kept(k) == SelectSeq(map[k], LAMBDA ts : ts >= t)
             keep == {k \in DOMAIN map : Len(kept(k)) # 0}
         IN  [k \in keep |-> kept(k)]

\* cleanup(now) (lines 129-143)
cleanup(map, t) ==
    IF Cardinality(DOMAIN map) < CleanupThreshold
    THEN map
    ELSE LET keep == {k \in DOMAIN map : Len(InWindow(map[k], t)) # 0}
         IN  [k \in keep |-> InWindow(map[k], t)]

\* a record step that forgets the timestamps already stored for the key
GuardRecordOnlyNow(map, key, t) == cleanup(MapSet(map, key, <<t>>), t)

\* the map after a call that is let through (lines 123-125)
GuardRecord(map, key, t) ==
    cleanup(MapSet(map, key, Append(ValidRequests(map, key, t), t)), t)

\* a rejecting branch that pushes the timestamp before it checks and throws
GuardOnRejectRecords(map, key, t) ==
    MapSet(map, key, Append(ValidRequests(map, key, t), t))

\* the map after a call that is rejected: the throw of line 117 comes before
\* any write
GuardOnReject(map, key, t) == map

\* canActivate (lines 105-127): one synchronous call, with the history of
\* what it decided; hit tells whether the request it guards asks for a variant
\* that is already stored.
GuardStep(userId, imageId, hit) ==
    LET key == GuardKey(userId, imageId)
        rejected == GuardRejects(requestsByKey, key, now)
    IN  /\ requestsByKey' =
              IF rejected THEN GuardOnReject(requestsByKey, key, now)
              ELSE GuardRecord(requestsByKey, key, now)
        /\ allowedLog' =
              IF rejected THEN allowedLog
              ELSE MapSet(allowedLog, key, Append(Existing(allowedLog, key), now))
        /\ lastGuard' = [key |-> key, at |-> now, allowed |-> ~rejected, hit |-> hit]
        /\ UNCHANGED <<config, now>>

\* time passes: Date.now() grows by d, up to limit
Tick(d, limit) ==
    /\ d > 0
    /\ now + d <= limit
    /\ now' = now + d
    /\ UNCHANGED <<serviceVars, hashVars, unitVars, editorVars, requestsByKey, config, allowedLog, lastGuard>>

-----------------------------------------------------------------------------
(* Formats and storage keys (images.service.ts, lines 506-584)              *)

\* SUPPORTED_IMAGE_FORMATS (transform-image.dto.ts, lines 15-21)
SUPPORTED_IMAGE_FORMATS == {"jpeg", "jpg", "png", "webp", "avif"}

\* null, for a format
NoFormat == ""

\* normalizeFormat (lines 565-576); the formats handed in are lower case
normalizeFormat(format) ==
    IF format = "" THEN NoFormat
    ELSE IF format = "jpg" THEN "jpeg"
    ELSE IF format \in SUPPORTED_IMAGE_FORMATS THEN format
    ELSE NoFormat

\* toStorageExtension (lines 518-520)
toStorageExtension(format) == IF format = "jpg" THEN "jpeg" ELSE format

\* formatToMime (lines 522-536)
formatToMime(format) ==
    CASE format \in {"jpg", "jpeg"} -> "image/jpeg"
      [] format = "png"  -> "image/png"
      [] format = "webp" -> "image/webp"
      [] format = "avif" -> "image/avif"
      [] OTHER           -> "application/octet-stream"

\* buildOriginalKey (lines 506-508)
buildOriginalKey(imageId, format) ==
    "images/original/" \o imageId \o "." \o toStorageExtension(format)

\* a variant key without the image's id
buildVariantKeyWithoutImage(imageId, hash, format) ==
    "images/variants/" \o hash \o "." \o toStorageExtension(format)

\* buildVariantKey (lines 510-516)
buildVariantKey(imageId, hash, format) ==
    "images/variants/" \o imageId \o "/" \o hash \o "." \o toStorageExtension(format)

-----------------------------------------------------------------------------
(* The pipeline (applyTransformations, lines 394-479).  A buffer is what    *)
(* it decodes to: the picture it was made from, the stages applied to it,   *)
(* its encoding and its dimensions.                                         *)

NoBuffer == [img |-> "", stages |-> <<>>, format |-> "", width |-> 0, height |-> 0]

\* JavaScript truthiness of a DTO value
Truthy(v) ==
    CASE v.t = "undef" -> FALSE
      [] v.t = "null"  -> FALSE
      [] v.t = "bool"  -> v.n = 1
      [] v.t = "num"   -> v.n # 0
      [] v.t = "str"   -> v.s # ""
      [] OTHER         -> TRUE

\* a ?? b
Coalesce(v, d) == IF v.t \in {"undef", "null"} THEN d ELSE v

\* Math.round(a / b) for a >= 0, b > 0
RoundDiv(a, b) == (2 * a + b) \div (2 * b)

\* an extract that takes any area
ExtractFitsAlways(crop, w, h) == TRUE

\* sharp's extract: the area must lie inside the picture
ExtractFits(crop, w, h) ==
    /\ Get(crop, "x").n + Get(crop, "width").n <= w
    /\ Get(crop, "y").n + Get(crop, "height").n <= h

\* dimensions after sharp's resize({width, height, fit})
ResizeDims(w, h, tw, th, fit) ==
    CASE fit \in {"cover", "contain", "fill"} -> <<tw, th>>
      [] fit = "inside" ->
            IF tw * h <= th * w THEN <<tw, Max(1, RoundDiv(h * tw, w))>>
            ELSE <<Max(1, RoundDiv(w * th, h)), th>>
      [] OTHER ->
            IF tw * h >= th * w THEN <<tw, Max(1, RoundDiv(h * tw, w))>>
            ELSE <<Max(1, RoundDiv(w * th, h)), th>>

\* dimensions after sharp's rotate, for the quarter turns the requests use
RotateDims(w, h, degrees) ==
    IF degrees % 180 = 90 THEN <<h, w>> ELSE <<w, h>>

\* info.format as sharp reports it: an AVIF output is reported as heif
SharpInfoFormat(format) == IF format = "avif" THEN "heif" ELSE format

\* a quality handed to the encoder as it comes
NormalizedQualityUnclamped(quality) == quality

\* Math.min(Math.max(quality, 1), 100) (line 486)
NormalizedQuality(quality) == Min(Max(quality, 1), 100)

\* the stages the calls of lines 401-444 put on the sharp pipeline, in the
\* order of the calls
PipelineStages(t, outputFormat) ==
    LET crop   == Get(t, "crop")
        resize == Get(t, "resize")
        rotate == Get(t, "rotate")
        filters == Get(t, "filters")
        quality == Coalesce(Get(Coalesce(Get(t, "compress"), Obj(<<>>)), "quality"), Num(80))
    IN  (IF Truthy(crop) THEN <<[op |-> "crop", arg |-> toPlainTransformations(crop)]>> ELSE <<>>)
     \o (IF Truthy(resize) THEN <<[op |-> "resize", arg |-> toPlainTransformations(resize)]>> ELSE <<>>)
     \o (IF rotate.t = "num" THEN <<[op |-> "rotate", arg |-> rotate]>> ELSE <<>>)
     \o (IF Truthy(Get(t, "flip")) THEN <<[op |-> "flip", arg |-> Undef]>> ELSE <<>>)
     \o (IF Truthy(Get(t, "mirror")) THEN <<[op |-> "flop", arg |-> Undef]>> ELSE <<>>)
     \o (IF IsObj(filters) /\ Truthy(Get(filters, "grayscale"))
         THEN <<[op |-> "grayscale", arg |-> Undef]>> ELSE <<>>)
     \o (IF IsObj(filters) /\ Truthy(Get(filters, "sepia"))
         THEN <<[op |-> "sepia", arg |-> Undef]>> ELSE <<>>)
     \o <<[op |-> "encode:" \o outputFormat, arg |-> Num(NormalizedQuality(quality.n))]>>

\* width and height of the encoded output (info of line 446)
OutputDims(t, w, h) ==
    LET crop   == Get(t, "crop")
        resize == Get(t, "resize")
        rotate == Get(t, "rotate")
        d1 == IF Truthy(crop) THEN <<Get(crop, "width").n, Get(crop, "height").n>> ELSE <<w, h>>
        d2 == IF Truthy(resize)
              THEN ResizeDims(d1[1], d1[2], Get(resize, "width").n, Get(resize, "height").n,
                              Coalesce(Get(resize, "fit"), Str("cover")).s)
              ELSE d1
    IN  IF rotate.t = "num" THEN RotateDims(d2[1], d2[2], rotate.n) ELSE d2

\* what applyTransformations returns when toBuffer succeeds, or the error of
\* ensureOutputFormat (lines 440-478).  The watermark is composited on the
\* encoded bytes by a second sharp pipeline (lines 457-464) whose toBuffer
\* encodes again, in the format of its input and with sharp's default options.
TransformResult(input, t, fallbackFormat) ==
    LET requested == IF Truthy(Get(t, "format")) THEN Get(t, "format").s ELSE fallbackFormat
        outputFormat == normalizeFormat(requested)
        dims == OutputDims(t, input.width, input.height)
        wm == Get(t, "watermark")
        marked == IsObj(wm) /\ Truthy(Get(wm, "text"))
        finalFormat == IF normalizeFormat(SharpInfoFormat(outputFormat)) # NoFormat
                       THEN normalizeFormat(SharpInfoFormat(outputFormat))
                       ELSE outputFormat
    IN  IF outputFormat = NoFormat
        THEN [ok |-> FALSE, error |-> "BadRequest", buffer |-> NoBuffer,
              contentType |-> "", format |-> ""]
        ELSE [ok |-> TRUE, error |-> "",
              buffer |-> [img |-> input.img,
                          stages |-> input.stages \o PipelineStages(t, outputFormat)
                               \o (IF marked
                                   THEN <<[op |-> "watermark", arg |-> toPlainTransformations(wm)],
                                          [op |-> "encode:" \o outputFormat, arg |-> Undef]>>
                                   ELSE <<>>),
                          format |-> finalFormat,
                          width |-> dims[1], height |-> dims[2]],
              contentType |-> formatToMime(finalFormat), format |-> finalFormat]

\* applyTransformations (lines 394-479): the result, or the error thrown
applyTransformations(input, t, fallbackFormat) ==
    LET crop == Get(t, "crop")
        r == TransformResult(input, t, fallbackFormat)
    IN  IF r.ok /\ Truthy(crop) /\ ~ExtractFits(crop, input.width, input.height)
        THEN [ok |-> FALSE, error |-> "PipelineError", buffer |-> NoBuffer,
              contentType |-> "", format |-> ""]
        ELSE r

\* transformed.buffer.length: a length that the content determines
ByteLength(buffer) == buffer.width * buffer.height + Len(buffer.stages)

-----------------------------------------------------------------------------
(* Documents, requests and the inputs explored                              *)

Users == {"u1", "u2"}

\* the users that upload
Uploaders == {"u1"}

\* the ObjectIds new documents get, in the order they are handed out
ImageIds == <<"i1">>

ImageIdSet == {ImageIds[i] : i \in 1..Len(ImageIds)}

\* the slots for the requests being served
Slots == <<"p1", "p2">>

Procs == {Slots[i] : i \in 1..Len(Slots)}

SlotRank(p) == CHOOSE i \in 1..Len(Slots) : Slots[i] = p

\* a new request takes the first slot that is free
FirstFree(p) ==
    /\ req[p].pc = "idle"
    /\ \A q \in Procs : req[q].pc = "idle" => SlotRank(p) <= SlotRank(q)

\* number of HTTP requests explored
MaxCalls == 3

\* the uploaded files: what sharp(file.buffer).metadata() reports
Files == {[format |-> "jpeg", width |-> 4, height |-> 3]}

NoDoc == [exists |-> FALSE, owner |-> "", originalKey |-> "", format |-> "",
          width |-> 0, height |-> 0, variants |-> <<>>, v |-> 0]

NoVariant == [hash |-> "", key |-> "", contentType |-> "", format |-> "",
              size |-> 0, width |-> 0, height |-> 0,
              transformations |-> Obj(<<>>), createdAt |-> 0]

NoResult == [ok |-> FALSE, error |-> "", buffer |-> NoBuffer,
             contentType |-> "", format |-> ""]

ErrorResp(status) == [status |-> status, cached |-> FALSE, hash |-> ""]

NoDone == [op |-> "", status |-> "none", cached |-> FALSE, hash |-> "",
           follows |-> FALSE, ran |-> FALSE, by |-> ""]

IdleReq ==
    [pc |-> "idle", op |-> "", userId |-> "", imageId |-> "", dto |-> Obj(<<>>),
     image |-> NoDoc, variantHash |-> "", hit |-> FALSE,
     source |-> NoBuffer, transformed |-> NoResult, created |-> NoVariant,
     keysToDelete |-> {}, follows |-> FALSE]

\* request bodies: { transformations: ... }
DtoRotate  == Obj(<<P("rotate", Num(90)), P("flip", Bool(TRUE))>>)
DtoRotate2 == Obj(<<P("flip", Bool(TRUE)), P("mirror", Undef), P("rotate", Num(90))>>)
DtoCropOut == Obj(<<P("crop", Obj(<<P("width", Num(2)), P("height", Num(2)),
                                     P("x", Num(3)), P("y", Num(2))>>))>>)
DtoWebp    == Obj(<<P("format", Str("webp"))>>)
DtoEmpty   == Obj(<<>>)

\* the transform requests explored: endpoint, req.userId, :id, body
TransformRequests ==
    { <<"save", "u1", "i1", DtoRotate>>,
      <<"save", "u1", "i1", DtoRotate2>>,
      <<"save", "u1", "i1", DtoCropOut>>,
      <<"save", "u1", "i1", DtoWebp>>,
      <<"save", "u2", "i1", DtoRotate>>,
      <<"transform", "u1", "i1", DtoRotate2>>,
      <<"transform", "u1", "i1", DtoEmpty>> }

\* bodies in which no operation group carries a value
DtoNullGroup  == Obj(<<P("resize", Null)>>)
DtoUndefGroup == Obj(<<P("mirror", Undef)>>)

\* crops of a 4x3 picture: one that ends on its last column and row, one
\* that passes its right edge only
DtoCropEdge == Obj(<<P("crop", Obj(<<P("width", Num(1)), P("height", Num(1)),
                                     P("x", Num(3)), P("y", Num(2))>>))>>)
DtoCropOutX == Obj(<<P("crop", Obj(<<P("width", Num(2)), P("height", Num(1)),
                                     P("x", Num(3)), P("y", Num(0))>>))>>)

\* a body with a watermark at the lowest opacity and font size allowed
DtoWatermark == Obj(<<P("watermark", Obj(<<P("text", Str("w")), P("opacity", Num(10)),
                                           P("fontSize", Num(12))>>))>>)

\* bodies with one field outside the range its decorators give
DtoOpacity5    == Obj(<<P("watermark", Obj(<<P("text", Str("w")), P("opacity", Num(5))>>))>>)
DtoOpacity101  == Obj(<<P("watermark", Obj(<<P("text", Str("w")), P("opacity", Num(101))>>))>>)
DtoFontSize11  == Obj(<<P("watermark", Obj(<<P("text", Str("w")), P("fontSize", Num(11))>>))>>)
DtoFontSize97  == Obj(<<P("watermark", Obj(<<P("text", Str("w")), P("fontSize", Num(97))>>))>>)
DtoEmptyText   == Obj(<<P("watermark", Obj(<<P("text", Str(""))>>))>>)
DtoBadPosition == Obj(<<P("watermark", Obj(<<P("text", Str("w")),
                                             P("position", Str("middle"))>>))>>)
DtoQuality101  == Obj(<<P("compress", Obj(<<P("quality", Num(101))>>))>>)
DtoQuality0    == Obj(<<P("compress", Obj(<<P("quality", Num(0))>>))>>)
DtoResizeZero  == Obj(<<P("resize", Obj(<<P("width", Num(0)), P("height", Num(2))>>))>>)
DtoResizeNegative == Obj(<<P("resize", Obj(<<P("width", Num(2)), P("height", Num(-1))>>))>>)
DtoBadFit      == Obj(<<P("resize", Obj(<<P("width", Num(2)), P("height", Num(2)),
                                          P("fit", Str("stretch"))>>))>>)
DtoCropZero    == Obj(<<P("crop", Obj(<<P("width", Num(1)), P("height", Num(0)),
                                        P("x", Num(0)), P("y", Num(0))>>))>>)
DtoCropNegative == Obj(<<P("crop", Obj(<<P("width", Num(1)), P("height", Num(1)),
                                         P("x", Num(-1)), P("y", Num(0))>>))>>)
DtoCropNegativeY == Obj(<<P("crop", Obj(<<P("width", Num(1)), P("height", Num(1)),
                                          P("x", Num(0)), P("y", Num(-1))>>))>>)
DtoBadFormat   == Obj(<<P("format", Str("gif")), P("rotate", Num(90))>>)

InvalidDtos ==
    { DtoOpacity5, DtoOpacity101, DtoFontSize11, DtoFontSize97, DtoEmptyText,
      DtoBadPosition, DtoQuality101, DtoQuality0, DtoResizeZero, DtoResizeNegative,
      DtoBadFit, DtoCropZero, DtoCropNegative, DtoCropNegativeY, DtoBadFormat }

\* the request bodies sent when the requests come one at a time
SequentialDtos ==
    { DtoEmpty, DtoNullGroup, DtoUndefGroup, DtoRotate, DtoRotate2, DtoCropOut, DtoWebp,
      DtoWatermark, DtoCropEdge, DtoCropOutX } \cup InvalidDtos

\* request bodies that ask for each output format, for none, and for a
\* watermark
DtoJpg  == Obj(<<P("format", Str("jpg"))>>)
DtoAvif == Obj(<<P("format", Str("avif"))>>)

FormatDtos == {DtoJpg, DtoAvif, DtoWebp, DtoRotate, DtoWatermark}

\* variantHash (lines 228-229, 270-271), tabulated for the bodies explored
RequestHashes ==
    [d \in {t[4] : t \in TransformRequests} \cup SequentialDtos \cup FormatDtos
             \cup {Obj(<<>>)}
        |-> VariantHashOf(d)]

RequestHash(dto) == RequestHashes[dto]

\* the queries of GET :id explored: ?variant=<hash>&format=<format>
RetrieveQueries ==
    { Obj(<<>>),
      Obj(<<P("format", Str("png"))>>),
      Obj(<<P("variant", Str(RequestHash(DtoWebp)))>>),
      Obj(<<P("variant", Str(RequestHash(DtoWebp))), P("format", Str("jpeg"))>>),
      Obj(<<P("variant", Str("0000"))>>),
      Obj(<<P("format", Str("gif"))>>) }

\* the delete requests explored: req.userId, :id
DeleteRequests == { <<"u1", "i1">>, <<"u2", "i1">> }

\* image.variants?.find((variant) => variant.hash === variantHash)
HasVariant(doc, hash) == \E i \in 1..Len(doc.variants) : doc.variants[i].hash = hash

FindVariant(doc, hash) ==
    doc.variants[CHOOSE i \in 1..Len(doc.variants) :
                    /\ doc.variants[i].hash = hash
                    /\ \A j \in 1..(i - 1) : doc.variants[j].hash # hash]

\* the requests other than p that are between their first and their last step
InFlight(p) == {q \in Procs \ {p} : req[q].pc # "idle"}

\* a handler returns or throws: the request is over, and the history keeps
\* the response and that the handler gave it
Finish(p, r, resp) ==
    /\ req' = [req EXCEPT ![p] = IdleReq]
    /\ lastDone' = [lastDone EXCEPT ![r.imageId] =
                      [op |-> r.op, status |-> resp.status, cached |-> resp.cached,
                       hash |-> resp.hash, follows |-> r.follows,
                       ran |-> r.transformed # NoResult, by |-> "handler"]]

-----------------------------------------------------------------------------
(* The class-validator decorators of transform-image.dto.ts.  A validator   *)
(* is a predicate of the property's value; the numbers of the request       *)
(* bodies explored are integers.                                            *)

\* @IsOptional(): the property's other validators are skipped when the value
\* is undefined or null
IsOptional(v) == v.t \in {"undef", "null"}

IsInt(v) == v.t = "num"

IsMin(v, lo) == v.t = "num" /\ v.n >= lo

\* a @Max that accepts every number
IsMaxUnbounded(v, hi) == v.t = "num"

IsMax(v, hi) == v.t = "num" /\ v.n <= hi

IsIn(v, allowed) == v.t = "str" /\ v.s \in allowed

IsBoolean(v) == v.t = "bool"

IsString(v) == v.t = "str"

IsNotEmpty(v) == ~(v.t \in {"undef", "null"}) /\ ~(v.t = "str" /\ v.s = "")

\* class ResizeDto (lines 24-38)
ResizeDto(o) ==
    /\ IsInt(Get(o, "width")) /\ IsMin(Get(o, "width"), 1)
    /\ IsInt(Get(o, "height")) /\ IsMin(Get(o, "height"), 1)
    /\ \/ IsOptional(Get(o, "fit"))
       \/ IsIn(Get(o, "fit"), {"cover", "contain", "fill", "inside", "outside"})

\* class CropDto (lines 40-60)
CropDto(o) ==
    /\ IsInt(Get(o, "width")) /\ IsMin(Get(o, "width"), 1)
    /\ IsInt(Get(o, "height")) /\ IsMin(Get(o, "height"), 1)
    /\ IsInt(Get(o, "x")) /\ IsMin(Get(o, "x"), 0)
    /\ IsInt(Get(o, "y")) /\ IsMin(Get(o, "y"), 0)

WatermarkPositions ==
    { "northwest", "north", "northeast", "west", "center", "east",
      "southwest", "south", "southeast" }

\* class WatermarkDto (lines 62-103)
WatermarkDto(o) ==
    /\ IsString(Get(o, "text")) /\ IsNotEmpty(Get(o, "text"))
    /\ \/ IsOptional(Get(o, "position"))
       \/ IsIn(Get(o, "position"), WatermarkPositions)
    /\ \/ IsOptional(Get(o, "fontSize"))
       \/ /\ IsInt(Get(o, "fontSize"))
          /\ IsMin(Get(o, "fontSize"), 12) /\ IsMax(Get(o, "fontSize"), 96)
    /\ \/ IsOptional(Get(o, "opacity"))
       \/ /\ IsInt(Get(o, "opacity"))
          /\ IsMin(Get(o, "opacity"), 10) /\ IsMax(Get(o, "opacity"), 100)

\* class CompressDto (lines 105-111)
CompressDto(o) ==
    /\ IsInt(Get(o, "quality"))
    /\ IsMin(Get(o, "quality"), 1) /\ IsMax(Get(o, "quality"), 100)

\* class FiltersDto (lines 113-121)
FiltersDto(o) ==
    /\ IsOptional(Get(o, "grayscale")) \/ IsBoolean(Get(o, "grayscale"))
    /\ IsOptional(Get(o, "sepia")) \/ IsBoolean(Get(o, "sepia"))

\* class TransformationsDto (lines 123-165); @ValidateNested() wants an
\* object and applies the validators of its class
TransformationsDto(t) ==
    LET resize    == Get(t, "resize")
        crop      == Get(t, "crop")
        watermark == Get(t, "watermark")
        compress  == Get(t, "compress")
        filters   == Get(t, "filters")
    IN  /\ IsOptional(resize) \/ (IsObj(resize) /\ ResizeDto(resize))
        /\ IsOptional(crop) \/ (IsObj(crop) /\ CropDto(crop))
        /\ IsOptional(Get(t, "rotate")) \/ IsInt(Get(t, "rotate"))
        /\ IsOptional(watermark) \/ (IsObj(watermark) /\ WatermarkDto(watermark))
        /\ IsOptional(Get(t, "flip")) \/ IsBoolean(Get(t, "flip"))
        /\ IsOptional(Get(t, "mirror")) \/ IsBoolean(Get(t, "mirror"))
        /\ IsOptional(compress) \/ (IsObj(compress) /\ CompressDto(compress))
        /\ IsOptional(Get(t, "format")) \/ IsIn(Get(t, "format"), SUPPORTED_IMAGE_FORMATS)
        /\ IsOptional(filters) \/ (IsObj(filters) /\ FiltersDto(filters))

\* class TransformImageDto (lines 167-172), given its transformations
TransformImageDto(transformations) ==
    IsObj(transformations) /\ TransformationsDto(transformations)

\* class RetrieveImageQueryDto (retrieve-image-query.dto.ts)
RetrieveImageQueryDto(q) ==
    /\ IsOptional(Get(q, "variant")) \/ IsString(Get(q, "variant"))
    /\ IsOptional(Get(q, "format")) \/ IsIn(Get(q, "format"), SUPPORTED_IMAGE_FORMATS)

\* The validation pipe of the application: a @Body() or @Query() whose class
\* carries validators is checked against them before the handler is called
\* (passes: whether it satisfies them), and one that fails is answered with
\* 400 Bad Request.
ValidationPipe(passes) == passes

-----------------------------------------------------------------------------
(* ImagesService and ImagesController                                       *)

\* ImageStorageService.uploadObject (part_001, lines 42-57): PutObject
uploadObject(bucket, key, body) == MapSet(bucket, key, body)

\* uploadImage (lines 128-165): the original goes to S3 under the key built
\* from the new document's id, then the document is saved.
UploadImage(userId, file) ==
    /\ minted < Len(ImageIds)
    /\ LET imageId == ImageIds[minted + 1]
           format == normalizeFormat(file.format)
           originalKey == buildOriginalKey(imageId, format)
       IN  /\ format # NoFormat
           /\ blob' = uploadObject(blob, originalKey,
                        [img |-> imageId, stages |-> <<>>, format |-> format,
                         width |-> file.width, height |-> file.height])
           /\ images' = [images EXCEPT ![imageId] =
                           [exists |-> TRUE, owner |-> userId, originalKey |-> originalKey,
                            format |-> format, width |-> file.width, height |-> file.height,
                            variants |-> <<>>, v |-> 0]]
    /\ minted' = minted + 1
    /\ UNCHANGED <<req, calls, lastDone, purged, guardVars, hashVars, unitVars, editorVars>>

\* a guard that is passed over when the cache can answer the request
GuardRunsOnMissOnly(hit) == ~hit

\* @UseGuards(TransformRateLimitGuard) on both endpoints (controller, lines
\* 54 and 68): Nest calls canActivate for every request to the route, before
\* the pipes and the handler
GuardRuns(hit) == TRUE

\* POST :id/transform and POST :id/transform/save (controller, lines 53-71):
\* TransformRateLimitGuard.canActivate runs first, then the pipe validates the
\* body, and only a body that passes reaches the handler.
ReceiveTransform(p, op, userId, imageId, dto) ==
    LET doc == images[imageId]
        hit == /\ doc.exists
               /\ doc.owner = userId
               /\ Len(Keys(dto)) # 0
               /\ HasVariant(doc, RequestHash(dto))
        rejected == /\ GuardRuns(hit)
                    /\ GuardRejects(requestsByKey, GuardKey(userId, imageId), now)
        invalid == ~rejected /\ ~ValidationPipe(TransformImageDto(dto))
    IN  /\ FirstFree(p)
        /\ calls < MaxCalls
        /\ calls' = calls + 1
        /\ IF GuardRuns(hit)
           THEN GuardStep(userId, imageId, hit)
           ELSE /\ lastGuard' = [key |-> GuardKey(userId, imageId), at |-> now,
                                 allowed |-> TRUE, hit |-> hit]
                /\ UNCHANGED <<requestsByKey, config, now, allowedLog>>
        /\ req' = IF rejected \/ invalid THEN req
                  ELSE [req EXCEPT ![p] =
                          [IdleReq EXCEPT !.pc = "find", !.op = op, !.userId = userId,
                                          !.imageId = imageId, !.dto = dto]]
        /\ lastDone' = IF invalid
                       THEN [lastDone EXCEPT ![imageId] =
                               [op |-> op, status |-> "BadRequest", cached |-> FALSE,
                                hash |-> "", follows |-> FALSE, ran |-> FALSE,
                                by |-> "pipe"]]
                       ELSE lastDone
        /\ UNCHANGED <<images, minted, blob, purged, hashVars, unitVars, editorVars>>

\* DELETE :id (controller, lines 78-81): no rate limit guard
ReceiveDelete(p, userId, imageId) ==
    /\ FirstFree(p)
    /\ calls < MaxCalls
    /\ calls' = calls + 1
    /\ req' = [req EXCEPT ![p] = [IdleReq EXCEPT !.pc = "find", !.op = "delete",
                                    !.userId = userId, !.imageId = imageId]]
    /\ UNCHANGED <<images, minted, blob, lastDone, purged, guardVars, hashVars, unitVars, editorVars>>

\* GET :id (controller, lines 83-94): no rate limit guard; the query is
\* validated, then getImageBinary is called
ReceiveRetrieve(p, userId, imageId, query) ==
    /\ FirstFree(p)
    /\ calls < MaxCalls
    /\ calls' = calls + 1
    /\ IF ValidationPipe(RetrieveImageQueryDto(query))
       THEN /\ req' = [req EXCEPT ![p] =
                        [IdleReq EXCEPT !.pc = "find", !.op = "retrieve",
                                        !.userId = userId, !.imageId = imageId,
                                        !.dto = query]]
            /\ UNCHANGED lastDone
       ELSE /\ req' = req
            /\ lastDone' = [lastDone EXCEPT ![imageId] =
                              [op |-> "retrieve", status |-> "BadRequest", cached |-> FALSE,
                               hash |-> "", follows |-> FALSE, ran |-> FALSE,
                               by |-> "pipe"]]
    /\ UNCHANGED <<images, minted, blob, purged, guardVars, hashVars, unitVars, editorVars>>

\* a key list that leaves the variants out
keysToDeleteOriginalOnly(doc) == {doc.originalKey} \ {""}

\* keysToDelete of deleteImage (lines 200-203): the original's key and the
\* key of every variant of the document loaded, the empty ones filtered out
keysToDelete(doc) ==
    ({doc.originalKey} \cup {doc.variants[i].key : i \in 1..Len(doc.variants)}) \ {""}

\* the lookup that never finds a stored variant
LookupMissAlways(doc, hash) == FALSE

\* whether the document loaded holds a variant of this hash (lines 230-234,
\* 272-276)
LookupHit(doc, hash) == HasVariant(doc, hash)

\* a query that leaves the owner out
findOwnedImageOfAnyone(doc, userId) == doc.exists

\* imageModel.findOne({ _id, owner }) of findOwnedImage (lines 382-385)
\* finds a document
findOwnedImage(doc, userId) == doc.exists /\ doc.owner = userId

\* findOwnedImage resolves (lines 378-392) and the handler runs to its next
\* await: transformImage lines 220-243, saveTransformedImage lines 262-287,
\* deleteImage lines 198-205, getImageBinary lines 332-350.
FindOwnedImage(p) ==
    LET r == req[p]
        doc == images[r.imageId]
        hash == RequestHash(r.dto)
        r1 == [r EXCEPT !.image = doc,
                        !.follows = /\ r.op = "save"
                                    /\ InFlight(p) = {}
                                    /\ lastDone[r.imageId].op = "save"
                                    /\ lastDone[r.imageId].status = "ok"
                                    /\ ~lastDone[r.imageId].cached
                                    /\ lastDone[r.imageId].hash = hash]
    IN  /\ r.pc = "find"
        /\ IF ~findOwnedImage(doc, r.userId)
           THEN Finish(p, r1, ErrorResp("NotFound"))
           ELSE IF r.op = "delete"
           THEN /\ req' = [req EXCEPT ![p] =
                     [r1 EXCEPT !.pc = "deleteObjects",
                                !.keysToDelete = keysToDelete(doc)]]
                /\ UNCHANGED lastDone
           ELSE IF r.op = "retrieve"
           THEN LET variant == Get(r.dto, "variant")
                IN  IF Truthy(variant) /\ ~HasVariant(doc, variant.s)
                    THEN Finish(p, r1, ErrorResp("NotFound"))
                    ELSE /\ req' = [req EXCEPT ![p] =
                              [r1 EXCEPT !.pc = "fetchObject",
                                         !.variantHash =
                                             IF Truthy(variant) THEN variant.s ELSE ""]]
                         /\ UNCHANGED lastDone
           ELSE IF Len(Keys(r.dto)) = 0
           THEN Finish(p, r1, ErrorResp("BadRequest"))
           ELSE IF LookupHit(doc, hash)
           THEN IF r.op = "save"
                THEN Finish(p, [r1 EXCEPT !.variantHash = hash, !.hit = TRUE],
                            [status |-> "ok", cached |-> TRUE,
                             hash |-> FindVariant(doc, hash).hash])
                ELSE /\ req' = [req EXCEPT ![p] =
                          [r1 EXCEPT !.pc = "fetchVariant", !.variantHash = hash,
                                     !.hit = TRUE]]
                     /\ UNCHANGED lastDone
           ELSE /\ req' = [req EXCEPT ![p] =
                     [r1 EXCEPT !.pc = "fetchSource", !.variantHash = hash]]
                /\ UNCHANGED lastDone
        /\ UNCHANGED <<images, minted, blob, calls, purged, guardVars, hashVars, unitVars, editorVars>>

\* transformImage on a hit: getObject(existingVariant.key) resolves and the
\* stored bytes are returned (lines 235-240)
FetchCachedVariant(p) ==
    LET r == req[p]
        key == FindVariant(r.image, r.variantHash).key
    IN  /\ r.pc = "fetchVariant"
        /\ IF key \in DOMAIN blob
           THEN Finish(p, r, [status |-> "ok", cached |-> TRUE, hash |-> r.variantHash])
           ELSE Finish(p, r, ErrorResp("StorageError"))
        /\ UNCHANGED <<images, minted, blob, calls, purged, guardVars, hashVars, unitVars, editorVars>>

\* a handler that goes on to the upload whatever the pipeline returned
AfterTransformIgnoringFailure(r, source, transformed) ==
    [r EXCEPT !.pc = "upload", !.source = source, !.transformed = transformed]

\* saveTransformedImage after applyTransformations returned or threw (lines
\* 288-299): a thrown error ends the request, a result goes on to the upload
AfterTransform(r, source, transformed) ==
    IF transformed.ok
    THEN [r EXCEPT !.pc = "upload", !.source = source, !.transformed = transformed]
    ELSE [r EXCEPT !.pc = "failed", !.source = source, !.transformed = transformed]

\* a preview that goes on to store its result, as a save does
AfterPreviewStoring(r, source, transformed) ==
    IF transformed.ok
    THEN [r EXCEPT !.pc = "upload", !.source = source, !.transformed = transformed]
    ELSE [r EXCEPT !.pc = "failed", !.source = source, !.transformed = transformed]

\* transformImage after applyTransformations returned or threw (lines
\* 244-254): the bytes are returned to the caller, or the error is thrown
AfterPreview(r, source, transformed) ==
    IF transformed.ok
    THEN [r EXCEPT !.pc = "returned", !.source = source, !.transformed = transformed]
    ELSE [r EXCEPT !.pc = "failed", !.source = source, !.transformed = transformed]

\* getObject(image.originalKey) resolves or rejects, and applyTransformations
\* runs on the bytes (transformImage lines 243-254, saveTransformedImage lines
\* 287-299)
FetchAndTransform(p) ==
    LET r == req[p]
        found == r.image.originalKey \in DOMAIN blob
        source == IF found THEN blob[r.image.originalKey] ELSE NoBuffer
        fallback == IF normalizeFormat(r.image.format) # NoFormat
                    THEN normalizeFormat(r.image.format) ELSE "jpeg"
        transformed == applyTransformations(source, r.dto, fallback)
    IN  /\ r.pc = "fetchSource"
        /\ IF ~found
           THEN Finish(p, r, ErrorResp("StorageError"))
           ELSE LET r2 == IF r.op = "transform"
                          THEN AfterPreview(r, source, transformed)
                          ELSE AfterTransform(r, source, transformed)
                IN  IF r2.pc = "failed"
                    THEN Finish(p, r2, ErrorResp(transformed.error))
                    ELSE IF r2.pc = "returned"
                    THEN Finish(p, r2, [status |-> "ok", cached |-> FALSE, hash |-> ""])
                    ELSE req' = [req EXCEPT ![p] = r2] /\ UNCHANGED lastDone
        /\ UNCHANGED <<images, minted, blob, calls, purged, guardVars, hashVars, unitVars, editorVars>>

\* applyOutputFormat(sharp(outputBuffer), outputFormat, 80).toBuffer(...)
\* (lines 357-367): the object encoded once more, in the format asked for
Reencode(object, outputFormat) ==
    LET finalFormat == IF normalizeFormat(SharpInfoFormat(outputFormat)) # NoFormat
                       THEN normalizeFormat(SharpInfoFormat(outputFormat))
                       ELSE outputFormat
    IN  [ok |-> TRUE, error |-> "",
         buffer |-> [object EXCEPT
                       !.stages = @ \o <<[op |-> "encode:" \o outputFormat,
                                          arg |-> Num(NormalizedQuality(80))]>>,
                       !.format = finalFormat],
         contentType |-> formatToMime(finalFormat), format |-> finalFormat]

\* a retrieve that goes on to store the bytes it encoded
AfterReencodeStoring(r, object, transformed) ==
    [r EXCEPT !.pc = "upload", !.source = object, !.transformed = transformed]

\* getImageBinary after the encoding (lines 364-375): the bytes are returned
AfterReencode(r, object, transformed) ==
    [r EXCEPT !.pc = "returned", !.source = object, !.transformed = transformed]

\* getImageBinary from getObject(key) to its return (lines 350-375)
getImageBinary(p) ==
    LET r == req[p]
        key == IF r.variantHash # ""
               THEN FindVariant(r.image, r.variantHash).key
               ELSE r.image.originalKey
        format == Get(r.dto, "format")
        found == key \in DOMAIN blob
        object == IF found THEN blob[key] ELSE NoBuffer
        outputFormat == normalizeFormat(format.s)
        answer == [status |-> "ok", cached |-> FALSE, hash |-> r.variantHash]
    IN  /\ r.pc = "fetchObject"
        /\ IF ~found
           THEN Finish(p, r, ErrorResp("StorageError"))
           ELSE IF ~Truthy(format)
           THEN Finish(p, [r EXCEPT !.source = object], answer)
           ELSE IF outputFormat = NoFormat
           THEN Finish(p, [r EXCEPT !.source = object], ErrorResp("BadRequest"))
           ELSE LET r2 == AfterReencode(r, object, Reencode(object, outputFormat))
                IN  IF r2.pc = "returned"
                    THEN Finish(p, r2, answer)
                    ELSE req' = [req EXCEPT ![p] = r2] /\ UNCHANGED lastDone
        /\ UNCHANGED <<images, minted, blob, calls, purged, guardVars, hashVars, unitVars, editorVars>>

\* an upload that is started but not awaited: the handler goes on before the
\* object is in the bucket
StoreVariantNotAwaited(bucket, key, body) == bucket

\* await this.imageStorageService.uploadObject({ key: variantKey, ... })
\* (lines 294-303)
StoreVariant(bucket, key, body) == uploadObject(bucket, key, body)

\* uploadObject(variantKey, ...) resolves (lines 294-303) and the handler
\* builds createdVariant and the new variants array (lines 305-317)
UploadVariant(p) ==
    LET r == req[p]
        t == r.transformed
        variantKey == buildVariantKey(r.imageId, r.variantHash, t.format)
    IN  /\ r.pc = "upload"
        /\ blob' = StoreVariant(blob, variantKey, t.buffer)
        /\ req' = [req EXCEPT ![p] =
              [r EXCEPT !.pc = "save",
                        !.created =
                            [hash |-> r.variantHash, key |-> variantKey,
                             contentType |-> t.contentType, format |-> t.format,
                             size |-> ByteLength(t.buffer),
                             width |-> t.buffer.width, height |-> t.buffer.height,
                             transformations |-> toPlainTransformations(r.dto),
                             createdAt |-> now]]]
        /\ UNCHANGED <<images, minted, calls, lastDone, purged, guardVars, hashVars, unitVars, editorVars>>

\* a save without the version key: the array the request loaded, with the new
\* entry, replaces the stored one whatever was saved in between
MongooseSaveUnversioned(cur, loaded, created) ==
    IF cur.exists
    THEN [ok |-> TRUE,
          doc |-> [cur EXCEPT !.variants = Append(loaded.variants, created), !.v = cur.v + 1]]
    ELSE [ok |-> FALSE, doc |-> cur]

\* a save that pushes onto the stored array: image.variants.push(createdVariant)
\* is sent as $push, which does not compare the version key
MongooseSavePush(cur, loaded, created) ==
    IF cur.exists
    THEN [ok |-> TRUE,
          doc |-> [cur EXCEPT !.variants = Append(cur.variants, created), !.v = cur.v + 1]]
    ELSE [ok |-> FALSE, doc |-> cur]

\* image.variants = [...(image.variants ?? []), createdVariant]; image.save()
\* (lines 317-318).  The schema (part_004, line 43) keeps Mongoose's version
\* key: an array assigned as a whole is sent as
\*   updateOne({_id, __v: <version loaded>}, {$set: {variants}, $inc: {__v: 1}})
\* and a save that matches no document fails with a VersionError.
MongooseSave(cur, loaded, created) ==
    IF cur.exists /\ cur.v = loaded.v
    THEN [ok |-> TRUE,
          doc |-> [cur EXCEPT !.variants = Append(loaded.variants, created),
                              !.v = cur.v + 1]]
    ELSE [ok |-> FALSE, doc |-> cur]

\* image.save() resolves or rejects (lines 318-324)
SaveDocument(p) ==
    LET r == req[p]
        saved == MongooseSave(images[r.imageId], r.image, r.created)
    IN  /\ r.pc = "save"
        /\ images' = [images EXCEPT ![r.imageId] = saved.doc]
        /\ IF saved.ok
           THEN Finish(p, r, [status |-> "ok", cached |-> FALSE, hash |-> r.created.hash])
           ELSE Finish(p, r, ErrorResp("VersionError"))
        /\ UNCHANGED <<minted, blob, calls, purged, guardVars, hashVars, unitVars, editorVars>>

\* deleteObjects(keysToDelete) (service line 205, storage lines 105-111): one
\* DeleteObjectCommand per key, all awaited together; when one of them fails
\* the others have still been sent, and deleteImage throws.
DeleteObjects(p) ==
    LET r == req[p]
    IN  /\ r.pc = "deleteObjects"
        /\ \E done \in SUBSET r.keysToDelete :
              /\ blob' = [k \in DOMAIN blob \ done |-> blob[k]]
              /\ purged' = IF done = {} THEN purged ELSE purged \cup {r.imageId}
              /\ IF done = r.keysToDelete
                 THEN req' = [req EXCEPT ![p] = [r EXCEPT !.pc = "deleteOne"]]
                      /\ UNCHANGED lastDone
                 ELSE Finish(p, r, ErrorResp("StorageError"))
        /\ UNCHANGED <<images, minted, calls, guardVars, hashVars, unitVars, editorVars>>

\* imageModel.deleteOne({ _id }) resolves (lines 206-212)
DeleteDocument(p) ==
    LET r == req[p]
    IN  /\ r.pc = "deleteOne"
        /\ images' = [images EXCEPT ![r.imageId] = NoDoc]
        /\ Finish(p, r, [status |-> "ok", cached |-> FALSE, hash |-> ""])
        /\ UNCHANGED <<minted, blob, calls, purged, guardVars, hashVars, unitVars, editorVars>>

\* An awaited call rejects (the database or S3 is unreachable, the request
\* times out) or the process dies while it is pending: the request ends
\* there, with nothing written by the call.
Abort(p) ==
    /\ req[p].pc \in {"find", "fetchVariant", "fetchSource", "upload", "save", "deleteOne"}
    /\ Finish(p, req[p], ErrorResp("Aborted"))
    /\ UNCHANGED <<images, minted, blob, calls, purged, guardVars, hashVars, unitVars, editorVars>>

-----------------------------------------------------------------------------
(* The service with its guard                                               *)

\* TRANSFORM_RATE_LIMIT_WINDOW_MS and TRANSFORM_RATE_LIMIT_MAX of the server.
\* The requests of a run all arrive within one window: the clock is at rest
\* here, and runs in the specification of the guard on its own.
ServiceConfigs ==
    { [windowMs |-> JsNumber(1000), maxRequests |-> JsNumber(2)],
      [windowMs |-> JsNumber(1000), maxRequests |-> JsNumber(3)] }

EmptyMap == [k \in {} |-> <<>>]

InitGuard ==
    /\ requestsByKey = EmptyMap
    /\ now = 0
    /\ allowedLog = EmptyMap
    /\ lastGuard = [key |-> "", at |-> 0, allowed |-> TRUE, hit |-> FALSE]

InitService ==
    /\ images = [i \in ImageIdSet |-> NoDoc]
    /\ minted = 0
    /\ blob = [k \in {} |-> NoBuffer]
    /\ req = [p \in Procs |-> IdleReq]
    /\ calls = 0
    /\ lastDone = [i \in ImageIdSet |-> NoDone]
    /\ purged = {}

InitHash ==
    /\ hashIn = <<Obj(<<>>), Obj(<<>>)>>
    /\ hashOut = <<[stable |-> "", hash |-> ""], [stable |-> "", hash |-> ""]>>

\* no private method has been called on its own
NoCall == [method |-> "", args |-> <<>>, result |-> <<>>]

InitUnit ==
    /\ callIn = NoCall
    /\ callOut = NoCall

\* previewUrl === null
NoPreview == [imageId |-> "", variant |-> "", action |-> 0]

\* the page after its first render (useState and useRef initial values,
\* part_008 lines 309-336); actions counts the actions of the user so far
NoEditor ==
    [selectedImageId |-> "", applySequence |-> 0, isApplying |-> FALSE,
     isSaving |-> FALSE, previewUrl |-> NoPreview, actions |-> 0]

InitEditor ==
    /\ editor = NoEditor
    /\ pending = {}

Init ==
    /\ InitService
    /\ InitUnit
    /\ InitEditor
    /\ InitGuard
    /\ config \in ServiceConfigs
    /\ InitHash

Next ==
    \/ \E u \in Uploaders, f \in Files : UploadImage(u, f)
    \/ \E p \in Procs, t \in TransformRequests :
          ReceiveTransform(p, t[1], t[2], t[3], t[4])
    \/ \E p \in Procs, d \in DeleteRequests : ReceiveDelete(p, d[1], d[2])
    \/ \E p \in Procs : FindOwnedImage(p)
    \/ \E p \in Procs : FetchCachedVariant(p)
    \/ \E p \in Procs : FetchAndTransform(p)
    \/ \E p \in Procs : UploadVariant(p)
    \/ \E p \in Procs : SaveDocument(p)
    \/ \E p \in Procs : DeleteObjects(p)
    \/ \E p \in Procs : DeleteDocument(p)
    \/ \E p \in Procs : Abort(p)

Spec == Init /\ [][Next]_vars

-----------------------------------------------------------------------------
(* Properties of the variant cache                                          *)

\* the formats a storage key can end in
StorageFormats == {normalizeFormat(f) : f \in SUPPORTED_IMAGE_FORMATS}

\* the number of entries of a document's variants array that carry a hash
VariantCount(doc, hash) ==
    Cardinality({i \in 1..Len(doc.variants) : doc.variants[i].hash = hash})

\* the variant objects the bucket holds for an image and a hash
ArtifactKeys(bucket, imageId, hash) ==
    {k \in DOMAIN bucket :
        \E f \in StorageFormats : k = buildVariantKey(imageId, hash, f)}

\* the hashes of the request bodies explored
Hashes == {RequestHashes[d] : d \in DOMAIN RequestHashes}

\* the step of request p leaves the handler by a rejected await or a crash
Aborted(p) ==
    /\ req'[p].pc = "idle"
    /\ lastDone'[req[p].imageId].status = "Aborted"

\* C1: whatever the interleaving of concurrent saves of one spec on one
\* image, the image's variants array never holds two entries of one hash and
\* the bucket never holds two variant objects for one image and hash.
C1_OneVariantPerHash ==
    \A i \in ImageIdSet : \A h \in Hashes :
        /\ VariantCount(images[i], h) <= 1
        /\ Cardinality(ArtifactKeys(blob, i, h)) <= 1

\* two saves of one hash raced: one has committed its entry while the other,
\* which missed the cache too, has uploaded and is about to save the document
C1_Witness ==
    \E p \in Procs :
        /\ req[p].pc = "save"
        /\ HasVariant(images[req[p].imageId], req[p].variantHash)
        /\ ~HasVariant(req[p].image, req[p].variantHash)

\* C2: of two saves of one spec made one after the other by the owner, the
\* first answers cached=false and the second cached=true with the same hash,
\* and exactly one variants entry and one stored object exist for the hash.
C2_SequentialSaves ==
    [][\A p \in Procs :
         LET r == req[p]
             i == r.imageId
             h == VariantHashOf(r.dto)
             done == lastDone'[i]
         IN  /\ ( /\ r.pc = "save"
                  /\ InFlight(p) = {}
                  /\ req'[p].pc = "idle"
                  /\ done.status = "ok" )
                => /\ ~done.cached
                   /\ done.hash = h
                   /\ VariantCount(images'[i], h) = 1
                   /\ Cardinality(ArtifactKeys(blob', i, h)) = 1
             /\ ( /\ r.pc = "find"
                  /\ r.op = "save"
                  /\ InFlight(p) = {}
                  /\ lastDone[i].op = "save"
                  /\ lastDone[i].status = "ok"
                  /\ ~lastDone[i].cached
                  /\ lastDone[i].hash = h
                  /\ images[i].owner = r.userId
                  /\ req'[p] # r
                  /\ ~Aborted(p) )
                => /\ req'[p].pc = "idle"
                   /\ done.status = "ok"
                   /\ done.cached
                   /\ done.hash = h
                   /\ images' = images
                   /\ blob' = blob
                   /\ VariantCount(images'[i], h) = 1
                   /\ Cardinality(ArtifactKeys(blob', i, h)) = 1
      ]_vars

\* the second of two sequential saves of one spec has answered from the cache
C2_Witness ==
    \E i \in ImageIdSet :
        /\ lastDone[i].op = "save"
        /\ lastDone[i].status = "ok"
        /\ lastDone[i].cached
        /\ lastDone[i].follows
        /\ VariantCount(images[i], lastDone[i].hash) = 1

\* C3: a save uploads the object before it appends the entry, so wherever a
\* save stops, every entry of an image's variants array names a key that is
\* in the bucket (as long as no delete has removed objects of the image).
C3_VariantsAreStored ==
    \A i \in ImageIdSet :
        (images[i].exists /\ i \notin purged)
            => \A j \in 1..Len(images[i].variants) :
                   images[i].variants[j].key \in DOMAIN blob

\* a save was cut off between its upload and its document save, and another
\* save has committed an entry
C3_Witness ==
    \E i \in ImageIdSet :
        /\ lastDone[i].op = "save"
        /\ lastDone[i].status = "Aborted"
        /\ lastDone[i].ran
        /\ i \notin purged
        /\ Len(images[i].variants) > 0
        /\ \E k \in DOMAIN blob :
              /\ k # images[i].originalKey
              /\ \A j \in 1..Len(images[i].variants) : images[i].variants[j].key # k

\* the fetch of the original, or the pipeline run on it, fails for request p
SourceOrPipelineFails(p) ==
    LET r == req[p]
        crop == Get(r.dto, "crop")
    IN  \/ r.image.originalKey \notin DOMAIN blob
        \/ Truthy(crop) /\ ~ExtractFits(crop, r.image.width, r.image.height)
        \/ Aborted(p)

\* C4: when the fetch of the original or a stage of the pipeline fails in a
\* save, the request ends in an error and neither the bucket nor the
\* variants array changes; after a failed fetch the pipeline has not run.
C4_FailureLeavesNoTrace ==
    [][\A p \in Procs :
         LET r == req[p]
             done == lastDone'[r.imageId]
         IN  ( /\ r.pc = "fetchSource"
               /\ r.op = "save"
               /\ req'[p] # r
               /\ SourceOrPipelineFails(p) )
             => /\ req'[p].pc = "idle"
                /\ done.op = "save"
                /\ done.status \in {"StorageError", "PipelineError", "Aborted"}
                /\ blob' = blob
                /\ images' = images
                /\ (r.image.originalKey \notin DOMAIN blob => ~done.ran)
      ]_vars

\* a save has ended in the error of a pipeline stage, with no entry appended
C4_Witness ==
    \E i \in ImageIdSet :
        /\ lastDone[i].op = "save"
        /\ lastDone[i].status = "PipelineError"
        /\ lastDone[i].ran
        /\ images[i].exists

\* C5: when the image holds a variant of the requested hash, a save answers
\* with that variant and cached=true, and neither a save nor a preview reads
\* the original, runs the pipeline or writes to the bucket or the variants.
C5_HitSkipsPipeline ==
    [][\A p \in Procs :
         LET r == req[p]
             i == r.imageId
             h == VariantHashOf(r.dto)
             stored == FindVariant(images[i], h)
             done == lastDone'[i]
         IN  /\ ( /\ r.pc = "find"
                  /\ r.op \in {"save", "transform"}
                  /\ images[i].exists
                  /\ images[i].owner = r.userId
                  /\ HasVariant(images[i], h)
                  /\ req'[p] # r
                  /\ ~Aborted(p) )
                => /\ images' = images
                   /\ blob' = blob
                   /\ r.op = "save"
                        => /\ req'[p].pc = "idle"
                           /\ done.status = "ok"
                           /\ done.cached
                           /\ done.hash = stored.hash
                           /\ ~done.ran
                   /\ r.op = "transform"
                        => /\ req'[p].pc = "fetchVariant"
                           /\ req'[p].hit
                           /\ req'[p].source = NoBuffer
                           /\ req'[p].transformed = NoResult
             /\ ( /\ r.pc = "fetchVariant"
                  /\ req'[p] # r )
                => /\ images' = images
                   /\ blob' = blob
                   /\ req'[p].pc = "idle"
                   /\ ~done.ran
                   /\ done.status = "ok" => done.cached
      ]_vars

\* a preview has been answered with the stored bytes of a variant
C5_Witness ==
    \E i \in ImageIdSet :
        /\ lastDone[i].op = "transform"
        /\ lastDone[i].status = "ok"
        /\ lastDone[i].cached
        /\ ~lastDone[i].ran

-----------------------------------------------------------------------------
(* The guard on its own: canActivate called for a key, under the            *)
(* configurations the environment can set                                    *)

\* TRANSFORM_RATE_LIMIT_WINDOW_MS / TRANSFORM_RATE_LIMIT_MAX: the defaults of
\* lines 101-102, a small window, and values below the minimums
LimiterConfigs ==
    { [windowMs |-> JsNumber(60000), maxRequests |-> JsNumber(20)],
      [windowMs |-> JsNumber(2000),  maxRequests |-> JsNumber(2)],
      [windowMs |-> JsNumber(500),   maxRequests |-> JsNumber(0)] }

\* number of canActivate calls explored beyond maxRequests
MaxExtraCalls == 2

\* number of windows the clock of the guard runs through
MaxWindows == 2

\* the requests the guard is called for: request.userId, request.params.id
GuardRequests == { <<"u1", "i1">>, <<"u2", "i1">> }

\* the largest maxRequests under which the calls of two keys are interleaved
MaxInterleaved == 2

\* canActivate(context) (lines 105-127)
canActivate(userId, imageId) ==
    /\ calls < EffectiveMaxRequests + MaxExtraCalls
    /\ calls' = calls + 1
    /\ GuardStep(userId, imageId, FALSE)
    /\ UNCHANGED <<images, minted, blob, req, lastDone, purged, hashVars, unitVars, editorVars>>

\* the step of the clock: half a window, a whole window where the calls of
\* one key alone are followed
ClockStep ==
    IF EffectiveMaxRequests > MaxInterleaved
    THEN EffectiveWindowMs
    ELSE EffectiveWindowMs \div 2

InitLimiter ==
    /\ InitService
    /\ InitUnit
    /\ InitEditor
    /\ InitGuard
    /\ config \in LimiterConfigs
    /\ InitHash

NextLimiter ==
    \/ \E g \in GuardRequests :
          /\ EffectiveMaxRequests > MaxInterleaved => g[1] = "u1"
          /\ canActivate(g[1], g[2])
    \/ Tick(ClockStep, MaxWindows * EffectiveWindowMs)

SpecLimiter == InitLimiter /\ [][NextLimiter]_vars

-----------------------------------------------------------------------------
(* Properties of the rate limit guard                                       *)

\* the step is a call of the guard for a transform request
GuardCalled == calls' # calls /\ lastGuard' # lastGuard

\* the number of calls of a key that the guard let pass at a time in [t - window, t]
AllowedInWindow(key, t) ==
    LET log == Existing(allowedLog, key)
    IN  Cardinality({j \in 1..Len(log) :
                        log[j] >= t - EffectiveWindowMs /\ log[j] <= t})

\* the times stored for a key
Stored(map, key) == {Existing(map, key)[j] : j \in 1..Len(Existing(map, key))}

\* C6, as stated: a transform request that hits the variant cache is
\* answered without the guard rejecting it and without a timestamp being
\* recorded for its key.
C6_GateOnlyOnMiss ==
    [][(GuardCalled /\ lastGuard'.hit)
          => /\ lastGuard'.allowed
             /\ requestsByKey' = requestsByKey
      ]_vars

\* C6, amended: the guard is called for every transform request, before the
\* variant cache is consulted; a request that hits the cache is rejected when
\* its key has maxRequests timestamps in the window, and the handler is then
\* not called; otherwise the time of the request is recorded for its key.
C6_GateOnEveryRequest ==
    [][(GuardCalled /\ lastGuard'.hit)
          => LET key == lastGuard'.key
                 before == ValidRequests(requestsByKey, key, now)
             IN  /\ lastGuard'.allowed <=> Len(before) < EffectiveMaxRequests
                 /\ lastGuard'.allowed
                      => /\ requestsByKey'[key] = Append(before, now)
                         /\ \E p \in Procs : req[p].pc = "idle" /\ req'[p].pc = "find"
                 /\ ~lastGuard'.allowed
                      => /\ requestsByKey' = requestsByKey
                         /\ req' = req
      ]_vars

\* a request for a variant that is stored has been rejected by the guard
C6_Witness ==
    /\ lastGuard.hit
    /\ ~lastGuard.allowed
    /\ \E i \in ImageIdSet : Len(images[i].variants) > 0

\* C7: the guard lets a call pass exactly when fewer than maxRequests calls
\* of its key were let pass at times in [now - window, now]; with the
\* defaults 60000 / 20 the 21st call in the window is rejected, and a call
\* made once the window has passed is let through again.
C7_AllowsBelowMax ==
    [][GuardCalled
          => /\ lastGuard'.allowed
                  <=> AllowedInWindow(lastGuard'.key, now) < EffectiveMaxRequests
             /\ ( /\ config = [windowMs |-> JsNumber(60000), maxRequests |-> JsNumber(20)]
                  /\ AllowedInWindow(lastGuard'.key, now) = 20 )
                  => ~lastGuard'.allowed
             /\ (\A ts \in Stored(allowedLog, lastGuard'.key) : ts < now - EffectiveWindowMs)
                  => lastGuard'.allowed
      ]_vars

\* under the defaults, 20 calls of a key were let pass, the 21st was
\* rejected, and after the window a call of the key has been let pass again
C7_Witness ==
    /\ config = [windowMs |-> JsNumber(60000), maxRequests |-> JsNumber(20)]
    /\ lastGuard.allowed
    /\ calls > Len(Existing(allowedLog, lastGuard.key))
    /\ Len(Existing(allowedLog, lastGuard.key)) = 21
    /\ Len(Existing(requestsByKey, lastGuard.key)) = 1

\* C8: a call that the guard rejects records nothing: the map of the guard
\* is the same after the call as before it.
C8_RejectRecordsNothing ==
    [][(GuardCalled /\ ~lastGuard'.allowed)
          => /\ requestsByKey' = requestsByKey
             /\ allowedLog' = allowedLog
      ]_vars

\* a call of the only key in use was rejected, and left the key as it was:
\* limited by the calls let pass before it, and by no more
C8_Witness ==
    /\ ~lastGuard.allowed
    /\ DOMAIN requestsByKey = {lastGuard.key}
    /\ calls = Len(allowedLog[lastGuard.key]) + 2
    /\ requestsByKey[lastGuard.key] = allowedLog[lastGuard.key]
    /\ now > lastGuard.at

\* C9: the guard reads, prunes, checks and records in one step, whatever
\* requests are in flight: every time it let pass that is still in the window
\* is stored, and no key has more than maxRequests calls let pass in a window.
C9_NoLostTimestamp ==
    \A key \in DOMAIN allowedLog \cup DOMAIN requestsByKey :
        /\ InWindow(Existing(requestsByKey, key), now)
              = InWindow(Existing(allowedLog, key), now)
        /\ AllowedInWindow(key, now) <= EffectiveMaxRequests

\* while a request of a key is in flight, further requests of the key came
\* in, and the one that would exceed maxRequests was rejected
C9_Witness ==
    /\ \E p \in Procs :
          /\ req[p].pc \notin {"idle", "find"}
          /\ req[p].op # "delete"
          /\ GuardKey(req[p].userId, req[p].imageId) = lastGuard.key
    /\ ~lastGuard.allowed
    /\ AllowedInWindow(lastGuard.key, now) = EffectiveMaxRequests

-----------------------------------------------------------------------------
(* The hash on its own: two request bodies are hashed as transformImage and *)
(* saveTransformedImage hash them                                           *)

\* the objects that hold the properties of o in any order
Reordered(o) ==
    {Obj([i \in 1..Len(o.o) |-> o.o[f[i]]]) : f \in Permutations(1..Len(o.o))}

\* the objects that hold the properties of o and, at some place, property k
\* with the value undefined
WithUndefined(o, k) ==
    {Obj(SubSeq(o.o, 1, n) \o <<P(k, Undef)>> \o SubSeq(o.o, n + 1, Len(o.o))) :
        n \in 0..Len(o.o)}

\* ResizeDto and CropDto values
ResizeA == Obj(<<P("width", Num(2)), P("height", Num(1)), P("fit", Str("cover"))>>)
ResizeB == Obj(<<P("width", Num(1)), P("height", Num(2)), P("fit", Str("cover"))>>)
CompressQ == Obj(<<P("quality", Num(80))>>)

\* TransformationsDto values: each base value in every order of its
\* properties, at both levels, and with undefined properties put in
HashInputs ==
    UNION { Reordered(Obj(<<P("resize", r), P("rotate", Num(90)), P("flip", Bool(TRUE))>>)) :
              r \in Reordered(ResizeA) }
    \cup UNION { WithUndefined(Obj(<<P("rotate", Num(90)), P("resize", r), P("flip", Bool(TRUE))>>),
                               "mirror") :
                   r \in WithUndefined(ResizeA, "fit") \cup {ResizeA} }
    \cup Reordered(Obj(<<P("resize", ResizeB), P("rotate", Num(90)), P("flip", Bool(TRUE))>>))
    \cup Reordered(Obj(<<P("resize", ResizeA), P("rotate", Num(180)), P("flip", Bool(TRUE))>>))
    \cup Reordered(Obj(<<P("resize", ResizeA), P("rotate", Num(90)), P("flip", Bool(FALSE))>>))
    \cup Reordered(Obj(<<P("rotate", Num(90)), P("flip", Bool(TRUE))>>))
    \cup { Obj(<<P("rotate", Num(90)), P("flip", Bool(TRUE)), P("compress", c)>>) :
             c \in {CompressQ, Obj(<<>>), Obj(<<P("quality", Undef)>>), Undef} }

NoHashed == [stable |-> "", hash |-> ""]

\* lines 228-229 and 270-271: plain = toPlainTransformations(dto.transformations),
\* variantHash = hashTransformations(plain); the text that is hashed is kept
Hashed(transformations) ==
    LET plain == toPlainTransformations(transformations)
    IN  [stable |-> stableStringify(plain), hash |-> hashTransformations(plain)]

HashBoth ==
    /\ hashOut = <<NoHashed, NoHashed>>
    /\ hashOut' = <<Hashed(hashIn[1]), Hashed(hashIn[2])>>
    /\ UNCHANGED <<hashIn, serviceVars, guardVars, unitVars, editorVars>>

InitHashing ==
    /\ InitService
    /\ InitUnit
    /\ InitEditor
    /\ InitGuard
    /\ config \in ServiceConfigs
    /\ hashIn \in HashInputs \X HashInputs
    /\ hashOut = <<NoHashed, NoHashed>>

NextHashing == HashBoth

SpecHash == InitHashing /\ [][NextHashing]_vars

\* the properties of an object whose value is not undefined
DefinedKeys(o) == {o.o[i].k : i \in {j \in 1..Len(o.o) : o.o[j].v.t # "undef"}}

\* two values differ at most in the order of the properties of their objects
\* and in properties whose value is undefined, at every level
RECURSIVE SameUpToOrder(_, _)
SameUpToOrder(a, b) ==
    IF IsObj(a) /\ IsObj(b)
    THEN /\ DefinedKeys(a) = DefinedKeys(b)
         /\ \A k \in DefinedKeys(a) : SameUpToOrder(Get(a, k), Get(b, k))
    ELSE a = b

\* C10: two specs that differ only in the order of the keys of their objects,
\* at any level, or in fields whose value is undefined, get the same
\* canonical text and the same hash.
C10_HashIgnoresOrder ==
    (hashOut # <<NoHashed, NoHashed>> /\ SameUpToOrder(hashIn[1], hashIn[2]))
        => /\ hashOut[1].stable = hashOut[2].stable
           /\ hashOut[1].hash = hashOut[2].hash

\* two specs were hashed that list their keys in different orders at both
\* levels, one of them with an undefined field, and got one hash
C10_Witness ==
    /\ hashOut # <<NoHashed, NoHashed>>
    /\ SameUpToOrder(hashIn[1], hashIn[2])
    /\ Keys(hashIn[1]) # Keys(hashIn[2])
    /\ HasKey(hashIn[2], "mirror")
    /\ ~HasKey(hashIn[1], "mirror")
    /\ Keys(Get(hashIn[1], "resize")) # Keys(Get(hashIn[2], "resize"))
    /\ hashOut[1].hash = hashOut[2].hash

-----------------------------------------------------------------------------
(* The service with its requests coming one at a time, over a wider range   *)
(* of request bodies                                                        *)

\* number of requests explored when they come one at a time
MaxSeqCalls == 2

\* the transform requests sent one at a time: endpoint, req.userId, :id, body
SequentialRequests ==
    {"save", "transform"} \X {"u1"} \X {"i1"} \X SequentialDtos

\* no request is being served
AllIdle == \A p \in Procs : req[p].pc = "idle"

NextSequential ==
    \/ \E u \in Uploaders, f \in Files : UploadImage(u, f)
    \/ \E p \in Procs, t \in SequentialRequests :
          /\ AllIdle
          /\ calls < MaxSeqCalls
          /\ ReceiveTransform(p, t[1], t[2], t[3], t[4])
    \/ \E p \in Procs, q \in RetrieveQueries :
          /\ AllIdle
          /\ calls < MaxSeqCalls
          /\ ReceiveRetrieve(p, "u1", "i1", q)
    \/ \E p \in Procs : FindOwnedImage(p)
    \/ \E p \in Procs : FetchCachedVariant(p)
    \/ \E p \in Procs : FetchAndTransform(p)
    \/ \E p \in Procs : UploadVariant(p)
    \/ \E p \in Procs : SaveDocument(p)
    \/ \E p \in Procs : getImageBinary(p)

SpecSequential == Init /\ [][NextSequential]_vars

\* the operation groups of a request body that carry a value
GroupsPresent(dto) ==
    {dto.o[i].k : i \in {j \in 1..Len(dto.o) : dto.o[j].v.t \notin {"undef", "null"}}}

\* C11: a transform request, preview or save, whose spec is {} or has no
\* operation group present is rejected as an invalid specification: the
\* original is not read, the pipeline is not run, nothing is written to the
\* bucket and no variant is appended.
C11_EmptySpecRejected ==
    [][\A p \in Procs :
         LET r == req[p]
             done == lastDone'[r.imageId]
         IN  ( /\ r.pc = "find"
               /\ r.op \in {"save", "transform"}
               /\ images[r.imageId].exists
               /\ images[r.imageId].owner = r.userId
               /\ GroupsPresent(r.dto) = {}
               /\ req'[p] # r )
             => /\ req'[p].pc = "idle"
                /\ done.status = "BadRequest"
                /\ ~done.ran
                /\ blob' = blob
                /\ images' = images
      ]_vars

\* the fields the decorators bound, outside their ranges
OutsideRange(t) ==
    LET resize    == Get(t, "resize")
        crop      == Get(t, "crop")
        watermark == Get(t, "watermark")
        compress  == Get(t, "compress")
        num(o, k) == Get(o, k).n
        isNum(o, k) == Get(o, k).t = "num"
        isStr(o, k) == Get(o, k).t = "str"
    IN  \/ IsObj(resize) /\ isNum(resize, "width") /\ num(resize, "width") < 1
        \/ IsObj(resize) /\ isNum(resize, "height") /\ num(resize, "height") < 1
        \/ IsObj(crop) /\ isNum(crop, "width") /\ num(crop, "width") < 1
        \/ IsObj(crop) /\ isNum(crop, "height") /\ num(crop, "height") < 1
        \/ IsObj(crop) /\ isNum(crop, "x") /\ num(crop, "x") < 0
        \/ IsObj(crop) /\ isNum(crop, "y") /\ num(crop, "y") < 0
        \/ IsObj(compress) /\ isNum(compress, "quality")
              /\ (num(compress, "quality") < 1 \/ num(compress, "quality") > 100)
        \/ IsObj(watermark) /\ isNum(watermark, "opacity")
              /\ (num(watermark, "opacity") < 10 \/ num(watermark, "opacity") > 100)
        \/ IsObj(watermark) /\ isNum(watermark, "fontSize")
              /\ (num(watermark, "fontSize") < 12 \/ num(watermark, "fontSize") > 96)
        \/ IsObj(watermark) /\ Get(watermark, "text") = Str("")
        \/ IsObj(watermark) /\ isStr(watermark, "position")
              /\ Get(watermark, "position").s \notin WatermarkPositions
        \/ IsObj(resize) /\ isStr(resize, "fit")
              /\ Get(resize, "fit").s \notin {"cover", "contain", "fill", "inside", "outside"}
        \/ isStr(t, "format") /\ Get(t, "format").s \notin SUPPORTED_IMAGE_FORMATS

\* C12: a transform request of an owner whose body has a field outside its
\* range (resize or crop width/height below 1, crop x or y below 0, quality
\* outside 1..100, opacity outside 10..100, fontSize outside 12..96, empty
\* watermark text, fit, format or position outside its enumeration) and that
\* the rate limit lets through is answered with Bad Request before the
\* handler is called: no request is started and nothing is stored.
C12_OutOfRangeRejected ==
    [][\A p \in Procs, t \in SequentialRequests :
          ( /\ OutsideRange(t[4])
            /\ ReceiveTransform(p, t[1], t[2], t[3], t[4])
            /\ lastGuard'.allowed )
          => /\ req' = req
             /\ lastDone'[t[3]].status = "BadRequest"
             /\ lastDone'[t[3]].op = t[1]
             /\ ~lastDone'[t[3]].ran
             /\ blob' = blob /\ images' = images]_vars

\* a request was turned down by the validation before any handler ran, on
\* an image that exists
C12_Witness ==
    /\ images["i1"].exists
    /\ lastDone["i1"].by = "pipe"
    /\ lastDone["i1"].status = "BadRequest"
    /\ lastGuard.allowed
    /\ \A p \in Procs : req[p].pc = "idle"

\* the order of the stages that the specification gives
StageOrder ==
    << "crop", "resize", "rotate", "flip", "flop", "grayscale", "sepia",
       "encode", "watermark" >>

EncodeOps == {"encode:" \o f : f \in SUPPORTED_IMAGE_FORMATS}

StageKind(stage) == IF stage.op \in EncodeOps THEN "encode" ELSE stage.op

StageRank(kind) == CHOOSE i \in 1..Len(StageOrder) : StageOrder[i] = kind

\* the group of the request that asks for a stage
StageGroup(kind) ==
    CASE kind = "flop" -> "mirror"
      [] kind \in {"grayscale", "sepia"} -> "filters"
      [] OTHER -> kind

C14_CropOutOfBoundsFails ==
    [][\A p \in Procs :
         LET r == req[p]
             crop == Get(r.dto, "crop")
             source == blob[r.image.originalKey]
         IN  ( /\ r.pc = "fetchSource"
               /\ req'[p] # r
               /\ ~Aborted(p)
               /\ r.image.originalKey \in DOMAIN blob
               /\ IsObj(crop)
               /\ \/ Get(crop, "x").n + Get(crop, "width").n > source.width
                  \/ Get(crop, "y").n + Get(crop, "height").n > source.height )
             => /\ req'[p].pc = "idle"
                /\ lastDone'[r.imageId].status = "PipelineError"
                /\ lastDone'[r.imageId].op = r.op
                /\ blob' = blob
                /\ images' = images
                /\ ~HasVariant(images'[r.imageId], r.variantHash)
      ]_vars

\* a preview of a crop that leaves the picture has ended in the error of
\* the pipeline
C14_Witness ==
    /\ images["i1"].exists
    /\ lastDone["i1"].op = "transform"
    /\ lastDone["i1"].status = "PipelineError"
    /\ lastDone["i1"].by = "handler"
    /\ ~HasVariant(images["i1"], RequestHash(DtoCropOut))
    /\ ~HasVariant(images["i1"], RequestHash(DtoCropOutX))

\* C15: no step of a preview (POST :id/transform), from its arrival to its
\* answer and whether it is answered from a stored variant, computed, or
\* fails, changes the bucket or any image document.
C15_PreviewNeverPersists ==
    [][\A p \in Procs :
         ( /\ req'[p] # req[p]
           /\ req[p].op = "transform" \/ req'[p].op = "transform" )
         => blob' = blob /\ images' = images
      ]_vars

\* a preview has run the pipeline and returned its bytes; the image has no
\* variant and the bucket holds the original alone
C15_Witness ==
    /\ lastDone["i1"].op = "transform"
    /\ lastDone["i1"].status = "ok"
    /\ ~lastDone["i1"].cached
    /\ lastDone["i1"].ran
    /\ images["i1"].exists
    /\ images["i1"].variants = <<>>
    /\ DOMAIN blob = {images["i1"].originalKey}

\* C16: no step of a retrieve (GET :id), whether it asks for the original or
\* for a variant, with or without an output format, and whether it succeeds
\* or fails, changes the bucket or any image document.
C16_RetrieveCachesNothing ==
    [][\A p \in Procs :
         ( /\ req'[p] # req[p]
           /\ req[p].op = "retrieve" \/ req'[p].op = "retrieve" )
         => blob' = blob /\ images' = images
      ]_vars

\* a stored variant has been retrieved in another format: the bytes were
\* encoded again, and the image still has that one variant and the bucket two
\* objects
C16_Witness ==
    /\ lastDone["i1"].op = "retrieve"
    /\ lastDone["i1"].status = "ok"
    /\ lastDone["i1"].ran
    /\ lastDone["i1"].hash = RequestHash(DtoWebp)
    /\ Len(images["i1"].variants) = 1
    /\ Cardinality(DOMAIN blob) = 2

\* C17: a delete sends a deletion for the key of the original and of every
\* variant of the document it loaded; it reaches the deletion of the document
\* only by the step in which all of them are gone from the bucket; a document
\* disappears only by the step of a delete that stands after its object
\* deletions; and a delete whose object deletions fail ends in an error and
\* leaves the documents as they are.
C17_BlobsBeforeRecord ==
    [][/\ \A p \in Procs :
            LET r == req[p]
                recorded == {r.image.originalKey}
                              \cup {r.image.variants[i].key : i \in 1..Len(r.image.variants)}
            IN  ( r.pc = "deleteObjects" /\ req'[p] # r )
                => IF req'[p].pc = "deleteOne"
                   THEN /\ \A k \in recorded : k \notin DOMAIN blob'
                        /\ images' = images
                   ELSE /\ req'[p].pc = "idle"
                        /\ lastDone'[r.imageId].op = "delete"
                        /\ lastDone'[r.imageId].status = "StorageError"
                        /\ images' = images
       /\ \A i \in ImageIdSet :
            ( images[i].exists /\ ~images'[i].exists )
            => \E p \in Procs : /\ req[p].pc = "deleteOne"
                                /\ req[p].op = "delete"
                                /\ req[p].imageId = i
                                /\ req'[p].pc = "idle"
      ]_vars

\* a delete of an image with a variant stands between its object deletions
\* and the deletion of the document: the bucket is empty, the document is
\* still there
C17_Witness ==
    \E p \in Procs :
        /\ req[p].op = "delete"
        /\ req[p].pc = "deleteOne"
        /\ Len(req[p].image.variants) >= 1
        /\ DOMAIN blob = {}
        /\ images[req[p].imageId].exists

\* the fields of a variant entry that describe the stored artifact
Artifact(variant) ==
    [hash |-> variant.hash, key |-> variant.key, format |-> variant.format,
     contentType |-> variant.contentType, size |-> variant.size,
     width |-> variant.width, height |-> variant.height]

\* C18: as long as the document of an image exists, every entry of its
\* variants array stays in the array with the same hash, key, format,
\* content type, size and dimensions, whatever saves of other hashes run at
\* the same time; entries go only with the document.
C18_VariantsStay ==
    [][\A i \in ImageIdSet :
         ( images[i].exists /\ images'[i].exists )
         => \A k \in 1..Len(images[i].variants) :
               \E j \in 1..Len(images'[i].variants) :
                  Artifact(images'[i].variants[j]) = Artifact(images[i].variants[k])
      ]_vars

\* a variant is committed while a save of another hash, which loaded the
\* document before that commit, is about to write its own array
C18_Witness ==
    \E p \in Procs :
        /\ req[p].op = "save"
        /\ req[p].pc = "save"
        /\ req[p].image.variants = <<>>
        /\ images[req[p].imageId].exists
        /\ Len(images[req[p].imageId].variants) = 1
        /\ images[req[p].imageId].variants[1].hash # req[p].created.hash

-----------------------------------------------------------------------------
(* The guard with a crowded map: the calls of many other keys have filled   *)
(* the map to one entry below the threshold of the cleanup, so that the     *)
(* next key recorded makes cleanup run.                                     *)

\* the keys of the other callers
OtherKeys == {"k" \o ToString(i) : i \in 1..(CleanupThreshold - 1)}

\* each of them was let pass once, at time 0
CrowdedMap == [k \in OtherKeys |-> <<0>>]

\* the settings of the guard explored with the crowded map
CrowdedConfigs == { [windowMs |-> JsNumber(500), maxRequests |-> JsNumber(0)] }

InitCrowded ==
    /\ InitService
    /\ InitUnit
    /\ InitEditor
    /\ requestsByKey \in {EmptyMap, CrowdedMap}
    /\ allowedLog = requestsByKey
    /\ now = 0
    /\ lastGuard = [key |-> "", at |-> 0, allowed |-> TRUE, hit |-> FALSE]
    /\ config \in CrowdedConfigs
    /\ InitHash

SpecCrowded == InitCrowded /\ [][NextLimiter]_vars

\* the map with the entry of one key alone
OnlyKey(map, key) == [k \in DOMAIN map \cap {key} |-> map[k]]

\* C19: a call of the guard for the key of one (user, image) pair leaves the
\* timestamps in the window of every other pair as they were, also when it
\* makes cleanup run over the whole map, and it is let pass or rejected as
\* it would be if the map held the entry of its own key alone.
C19_KeysIndependent ==
    [][\A g \in GuardRequests :
         canActivate(g[1], g[2])
         => /\ \A k \in (DOMAIN requestsByKey \cup DOMAIN requestsByKey'
                          \cup {GuardKey(h[1], h[2]) : h \in GuardRequests \ {g}})
                         \ {g[1] \o ":" \o g[2]} :
                  InWindow(Existing(requestsByKey', k), now)
                     = InWindow(Existing(requestsByKey, k), now)
            /\ lastGuard'.allowed
                  <=> ~GuardRejects(OnlyKey(requestsByKey, GuardKey(g[1], g[2])),
                                    GuardKey(g[1], g[2]), now)
      ]_vars

\* both pairs have timestamps in the window, and the cleanup has removed
\* the expired entries of the other callers
C19_Witness ==
    /\ OtherKeys \subseteq DOMAIN allowedLog
    /\ OtherKeys \cap DOMAIN requestsByKey = {}
    /\ \A g \in GuardRequests :
          /\ GuardKey(g[1], g[2]) \in DOMAIN requestsByKey
          /\ Len(InWindow(requestsByKey[GuardKey(g[1], g[2])], now)) > 0
    /\ lastGuard.allowed

-----------------------------------------------------------------------------
(* The guard under every setting of its two environment variables           *)

\* number of canActivate calls explored under each setting
MaxConfiguredCalls == 3

InitConfigured ==
    /\ InitService
    /\ InitUnit
    /\ InitEditor
    /\ InitGuard
    /\ config \in {[windowMs |-> Number(w), maxRequests |-> Number(m)] :
                      w \in EnvValues, m \in EnvValues}
    /\ InitHash

\* the calls come less than a second apart
NextConfigured ==
    \/ \E g \in GuardRequests :
          /\ calls < MaxConfiguredCalls
          /\ calls' = calls + 1
          /\ GuardStep(g[1], g[2], FALSE)
          /\ UNCHANGED <<images, minted, blob, req, lastDone, purged, hashVars, unitVars, editorVars>>
    \/ Tick(MinWindowMs \div 3, 2 * (MinWindowMs \div 3))

SpecConfigured == InitConfigured /\ [][NextConfigured]_vars

\* the calls of a key that were let pass less than a second before t
AllowedWithinSecond(key, t) ==
    {ts \in Stored(allowedLog, key) : t - ts < MinWindowMs}

\* C20: under every setting of the two variables, the first call of a key
\* is let pass, a call is rejected only when a call of its key was let pass
\* within the second before it, and a call that is let pass is counted
\* together with every call of its key let pass within the second before it.
C20_DefensiveMinimums ==
    [][GuardCalled
          => LET key == lastGuard'.key
             IN  /\ Stored(allowedLog, key) = {} => lastGuard'.allowed
                 /\ ~lastGuard'.allowed => AllowedWithinSecond(key, now) # {}
                 /\ lastGuard'.allowed
                      => AllowedWithinSecond(key, now) \cup {now}
                            \subseteq Stored(requestsByKey', key)
      ]_vars

\* the limiter with the sweep removed: what a call that is let through
\* leaves in the map
RecordWithoutSweep(map, key, t) ==
    MapSet(map, key, Append(ValidRequests(map, key, t), t))

\* C21: a call is let pass or rejected exactly as the limiter without the
\* sweep decides it, which holds every timestamp let pass so far; and the
\* map a call leaves differs from the map without the sweep only in
\* timestamps older than the window start and in keys that have no younger
\* one.
C21_SweepAdvisory ==
    [][GuardCalled
          => LET key == lastGuard'.key
                 unswept == RecordWithoutSweep(requestsByKey, key, now)
             IN  /\ lastGuard'.allowed <=> ~GuardRejects(allowedLog, key, now)
                 /\ lastGuard'.allowed
                      => /\ DOMAIN requestsByKey' \subseteq DOMAIN unswept
                         /\ \A k \in DOMAIN unswept :
                               IF k \in DOMAIN requestsByKey'
                               THEN requestsByKey'[k]
                                       \in {unswept[k], InWindow(unswept[k], now)}
                               ELSE InWindow(unswept[k], now) = <<>>
      ]_vars

\* the sweep has removed the entries of the other callers, and a call made
\* after it has been rejected
C21_Witness ==
    /\ OtherKeys \subseteq DOMAIN allowedLog
    /\ OtherKeys \cap DOMAIN requestsByKey = {}
    /\ ~lastGuard.allowed
    /\ lastGuard.key \in DOMAIN requestsByKey

-----------------------------------------------------------------------------
(* applyTransformations called on its own, with specs that the validation   *)
(* of the request bodies would not let through as well                      *)

\* the decoded original handed in
EncodeSource == [img |-> "i1", stages |-> <<>>, format |-> "jpeg", width |-> 4, height |-> 3]

\* fallbackFormat: the format of the original
EncodeFallbacks == {"jpeg", "png", "webp"}

EncodeFormats ==
    { <<>> } \cup { <<P("format", Str(f))>> : f \in {"jpg", "jpeg", "png", "webp", "avif", "gif", "bmp"} }

EncodeQualities ==
    { <<>>, <<P("compress", Obj(<<>>))>>, <<P("compress", Null)>> }
       \cup { <<P("compress", Obj(<<P("quality", Num(q))>>))>> : q \in {1, 55, 100, 0, 150, -3} }

EncodeOthers == { <<>>, <<P("flip", Bool(TRUE))>> }

EncodeSpecs ==
    { Obj(o \o q \o f) : o \in EncodeOthers, q \in EncodeQualities, f \in EncodeFormats }

InitEncoding ==
    /\ InitService
    /\ InitEditor
    /\ InitGuard
    /\ config \in ServiceConfigs
    /\ InitHash
    /\ callIn \in { [method |-> "applyTransformations", args |-> <<t, f>>, result |-> <<>>] :
                       t \in EncodeSpecs, f \in EncodeFallbacks }
    /\ callOut = NoCall

\* await this.applyTransformations(source.buffer, dto.transformations, fallback)
EncodeCall ==
    /\ callIn.method = "applyTransformations"
    /\ callOut = NoCall
    /\ callOut' = [callIn EXCEPT !.result =
                     applyTransformations(EncodeSource, callIn.args[1], callIn.args[2])]
    /\ UNCHANGED <<callIn, serviceVars, guardVars, hashVars, editorVars>>

NextEncoding == EncodeCall

SpecEncode == InitEncoding /\ [][NextEncoding]_vars

\* the first encoding among the stages of a buffer
EncodeStage(stages) ==
    stages[CHOOSE i \in 1..Len(stages) :
              /\ stages[i].op \in EncodeOps
              /\ \A j \in 1..(i - 1) : stages[j].op \notin EncodeOps]

\* C22: the pipeline encodes in spec.format when the spec has one and in
\* the format of the original otherwise, jpg standing for jpeg, with the
\* quality compress.quality when the spec has one and 80 otherwise, brought
\* into 1..100; a format outside jpeg, png, webp, avif ends the call with
\* BadRequest and nothing is encoded.
C22_EncodeStage ==
    callOut.method = "applyTransformations"
       => LET t == callOut.args[1]
              given == Get(t, "format")
              asked == IF given.t = "str" THEN given.s ELSE callOut.args[2]
              target == IF asked = "jpg" THEN "jpeg" ELSE asked
              compress == Get(t, "compress")
              q == IF IsObj(compress) /\ Get(compress, "quality").t = "num"
                   THEN Get(compress, "quality").n ELSE 80
              clamped == IF q < 1 THEN 1 ELSE IF q > 100 THEN 100 ELSE q
              out == callOut.result
          IN  IF target \in {"jpeg", "png", "webp", "avif"}
              THEN /\ out.ok
                   /\ EncodeStage(out.buffer.stages)
                         = [op |-> "encode:" \o target, arg |-> Num(clamped)]
              ELSE /\ ~out.ok
                   /\ out.error = "BadRequest"
                   /\ out.buffer = NoBuffer

\* a spec without format and with quality 150 has been encoded, for an
\* original that is a PNG
C22_Witness ==
    /\ callOut.method = "applyTransformations"
    /\ ~HasKey(callOut.args[1], "format")
    /\ callOut.args[2] = "png"
    /\ Get(Get(callOut.args[1], "compress"), "quality") = Num(150)
    /\ callOut.result.ok
    /\ EncodeStage(callOut.result.buffer.stages).op = "encode:png"

-----------------------------------------------------------------------------
(* The four operations on a resource, asked for by its owner and by         *)
(* another user, before the upload, after it and after the delete           *)

OwnershipDtos == {DtoRotate, DtoWebp}

OwnershipQueries == { Obj(<<>>), Obj(<<P("variant", Str(RequestHash(DtoWebp)))>>) }

NextOwnership ==
    \/ \E u \in Uploaders, f \in Files : UploadImage(u, f)
    \/ \E p \in Procs, op \in {"save", "transform"}, u \in Users, d \in OwnershipDtos :
          AllIdle /\ ReceiveTransform(p, op, u, "i1", d)
    \/ \E p \in Procs, u \in Users, q \in OwnershipQueries :
          AllIdle /\ ReceiveRetrieve(p, u, "i1", q)
    \/ \E p \in Procs, u \in Users : AllIdle /\ ReceiveDelete(p, u, "i1")
    \/ \E p \in Procs : FindOwnedImage(p)
    \/ \E p \in Procs : FetchCachedVariant(p)
    \/ \E p \in Procs : FetchAndTransform(p)
    \/ \E p \in Procs : UploadVariant(p)
    \/ \E p \in Procs : SaveDocument(p)
    \/ \E p \in Procs : getImageBinary(p)
    \/ \E p \in Procs : DeleteObjects(p)
    \/ \E p \in Procs : DeleteDocument(p)

SpecOwnership == Init /\ [][NextOwnership]_vars

ResourceKeys(imageId) ==
    {buildOriginalKey(imageId, f) : f \in StorageFormats}
       \cup {buildVariantKey(imageId, h, f) : h \in Hashes, f \in StorageFormats}

\* C24: once a deleteImage of a resource has removed its document and no
\* request is in flight any more, the bucket holds no object under the
\* key of the resource's original or under a key of one of its variants,
\* whatever saves ran beside the delete.
C24_DeleteLeavesNothing ==
    \A i \in ImageIdSet :
        ( /\ AllIdle
          /\ i \in purged
          /\ ~images[i].exists )
        => DOMAIN blob \cap ResourceKeys(i) = {}

-----------------------------------------------------------------------------
(* Uploads through a presigned URL (createUploadUrl, finalizeUpload) beside *)
(* uploadImage and deleteImage                                              *)

\* the ObjectIds new documents get here, in the order they are handed out
UploadIds == <<"i1", "i2">>

UploadIdSet == {UploadIds[i] : i \in 1..Len(UploadIds)}

\* the keys createUploadUrl has handed to a user (line 77): one key for each
\* call, under images/pending/{userId}/
PendingKeys(userId) ==
    {"images/pending/" \o userId \o "/" \o n \o "." \o toStorageExtension("jpeg") :
        n \in {"1700000000000-k3x9a1bq", "1700000000001-z81mmc0d"}}

InitUploads ==
    /\ images = [i \in UploadIdSet |-> NoDoc]
    /\ minted = 0
    /\ blob = [k \in {} |-> NoBuffer]
    /\ req = [p \in Procs |-> IdleReq]
    /\ calls = 0
    /\ lastDone = [i \in UploadIdSet |-> NoDone]
    /\ purged = {}
    /\ InitGuard
    /\ config \in ServiceConfigs
    /\ InitHash
    /\ InitUnit
    /\ InitEditor

\* the browser PUTs the file to the presigned URL of a key
PutPending(userId, key, file) ==
    /\ key \in PendingKeys(userId)
    /\ key \notin DOMAIN blob
    /\ blob' = uploadObject(blob, key,
                 [img |-> key, stages |-> <<>>, format |-> file.format,
                  width |-> file.width, height |-> file.height])
    /\ UNCHANGED <<images, minted, req, calls, lastDone, purged, guardVars, hashVars,
                   unitVars, editorVars>>

\* finalizeUpload (lines 86-126): the key must lie under the caller's
\* prefix and the object must be there; a new document is saved with the
\* key as its originalKey.  Nothing is looked up in the collection.
FinalizeUpload(userId, key) ==
    /\ minted < Len(UploadIds)
    /\ key \in PendingKeys(userId)
    /\ key \in DOMAIN blob
    /\ LET imageId == UploadIds[minted + 1]
           object == blob[key]
           format == normalizeFormat(object.format)
       IN  /\ format # NoFormat
           /\ images' = [images EXCEPT ![imageId] =
                           [exists |-> TRUE, owner |-> userId, originalKey |-> key,
                            format |-> format, width |-> object.width,
                            height |-> object.height, variants |-> <<>>, v |-> 0]]
    /\ minted' = minted + 1
    /\ UNCHANGED <<blob, req, calls, lastDone, purged, guardVars, hashVars, unitVars,
                   editorVars>>

NextUploads ==
    \/ \E u \in Uploaders, f \in Files : UploadImage(u, f)
    \/ \E u \in Uploaders : \E k \in PendingKeys(u), f \in Files : PutPending(u, k, f)
    \/ \E u \in Uploaders : \E k \in PendingKeys(u) : FinalizeUpload(u, k)
    \/ \E p \in Procs, u \in Uploaders, i \in UploadIdSet :
          AllIdle /\ ReceiveDelete(p, u, i)
    \/ \E p \in Procs : FindOwnedImage(p)
    \/ \E p \in Procs : DeleteObjects(p)
    \/ \E p \in Procs : DeleteDocument(p)

SpecUploads == InitUploads /\ [][NextUploads]_vars

\* C25: no two documents have the same originalKey, whatever uploads,
\* finalizeUpload calls (also two with one key) and deletes have run, so
\* that deleting one of them removes no object another one names.
C25_OriginalKeyOfOneRecord ==
    \A i, j \in UploadIdSet :
        (i # j /\ images[i].exists /\ images[j].exists)
           => images[i].originalKey # images[j].originalKey

-----------------------------------------------------------------------------
(* The editor page (part_008, component Home).  The user selects an image,  *)
(* presses Apply, Save or Show original; every fetch the page awaits is a   *)
(* record in pending, and its response comes at any later time.             *)

\* the images of the list
EditorImages == {"i1", "i2"}

\* number of actions of the user explored
MaxActions == 3

\* the responses: response.ok or not
Outcomes == {"ok", "error"}

\* a fetch the page awaits: what is fetched (kind), by which handler
\* (flow), with the imageId and the sequence the handler holds, and, as
\* history, the number of the action that started it
Fetch(kind, flow, imageId, variant, sequence, action) ==
    [kind |-> kind, flow |-> flow, imageId |-> imageId, variant |-> variant,
     sequence |-> sequence, action |-> action]

\* sequence !== applySequence.current (lines 412, 472, 535), with the typeof
\* test of fetchPreview
Superseded(m, e) == m.sequence.t = "num" /\ m.sequence.n # e.applySequence

\* replacePreview(URL.createObjectURL(blob)) (lines 382-389, 416-417, 476-477)
replacePreview(e, m, variant) ==
    [e EXCEPT !.previewUrl = [imageId |-> m.imageId, variant |-> variant, action |-> m.action]]

\* the finally blocks of applyTransformPreview (lines 487-491) and
\* saveTransformVariant (lines 557-561)
Finally(e, m) ==
    IF m.flow \in {"apply", "save"} /\ m.sequence.n = e.applySequence
    THEN IF m.flow = "apply" THEN [e EXCEPT !.isApplying = FALSE]
         ELSE [e EXCEPT !.isSaving = FALSE]
    ELSE e

\* setSelectedImageId(imageId) (handleSelectImage, lines 692-700, or the
\* effect of lines 592-610) and the effect it triggers (lines 620-627)
SelectImage(imageId) ==
    LET sequence == editor.applySequence + 1
    IN  /\ editor.actions < MaxActions
        /\ imageId # editor.selectedImageId
        /\ editor' = [editor EXCEPT !.selectedImageId = imageId,
                                    !.applySequence = sequence,
                                    !.actions = editor.actions + 1]
        /\ pending' = pending \cup
               {Fetch("preview", "select", imageId, "", Num(sequence), editor.actions + 1)}
        /\ UNCHANGED <<serviceVars, guardVars, hashVars, unitVars>>

\* handleReset (lines 769-781), behind the button Show original (lines
\* 1254-1261): fetchPreview is called without a sequence
handleReset ==
    /\ editor.actions < MaxActions
    /\ editor.selectedImageId # ""
    /\ ~editor.isSaving
    /\ editor' = [editor EXCEPT !.applySequence = editor.applySequence + 1,
                                !.actions = editor.actions + 1]
    /\ pending' = pending \cup
           {Fetch("preview", "reset", editor.selectedImageId, "", Undef, editor.actions + 1)}
    /\ UNCHANGED <<serviceVars, guardVars, hashVars, unitVars>>

\* applyTransformPreview up to its first await (lines 429-454), behind the
\* button Apply (lines 1238-1245); empty: the form gives no transformation
applyTransformPreview(empty) ==
    LET sequence == editor.applySequence + 1
    IN  /\ editor.actions < MaxActions
        /\ editor.selectedImageId # ""
        /\ ~editor.isApplying /\ ~editor.isSaving
        /\ editor' = [editor EXCEPT !.applySequence = sequence,
                                    !.isApplying = TRUE,
                                    !.actions = editor.actions + 1]
        /\ pending' = pending \cup
               {Fetch(IF empty THEN "preview" ELSE "transform", "apply",
                      editor.selectedImageId, "", Num(sequence), editor.actions + 1)}
        /\ UNCHANGED <<serviceVars, guardVars, hashVars, unitVars>>

\* saveTransformVariant up to its first await (lines 494-518), behind the
\* button Save (lines 1246-1253); without a transformation it returns at
\* once, through its finally block
saveTransformVariant(empty) ==
    LET sequence == editor.applySequence + 1
    IN  /\ editor.actions < MaxActions
        /\ editor.selectedImageId # ""
        /\ ~editor.isApplying /\ ~editor.isSaving
        /\ editor' = [editor EXCEPT !.applySequence = sequence,
                                    !.isSaving = ~empty,
                                    !.actions = editor.actions + 1]
        /\ pending' = IF empty THEN pending
                      ELSE pending \cup
                             {Fetch("save", "save", editor.selectedImageId, "",
                                    Num(sequence), editor.actions + 1)}
        /\ UNCHANGED <<serviceVars, guardVars, hashVars, unitVars>>

\* the response to a fetch arrives and the handler that awaits it runs to
\* its next await or to its end: fetchPreview (lines 400-424), then the
\* rest of applyTransformPreview (lines 456-491) or of saveTransformVariant
\* (lines 520-561)
Deliver(m, outcome) ==
    LET shown == outcome = "ok" /\ ~Superseded(m, editor)
        rest == pending \ {m}
    IN  /\ m \in pending
        /\ CASE m.kind = "preview" ->
                   LET e1 == IF shown THEN replacePreview(editor, m, m.variant) ELSE editor
                   IN  IF m.flow = "save"
                       THEN /\ editor' = e1
                            /\ pending' = rest \cup {[m EXCEPT !.kind = "list"]}
                       ELSE /\ editor' = Finally(e1, m)
                            /\ pending' = rest
             [] m.kind = "transform" ->
                   /\ editor' = Finally(IF shown THEN replacePreview(editor, m, "preview")
                                        ELSE editor, m)
                   /\ pending' = rest
             [] m.kind = "save" ->
                   IF shown
                   THEN /\ editor' = editor
                        /\ pending' = rest \cup
                               {[m EXCEPT !.kind = "preview", !.variant = "saved"]}
                   ELSE /\ editor' = Finally(editor, m)
                        /\ pending' = rest
             [] OTHER ->
                   /\ editor' = Finally(editor, m)
                   /\ pending' = rest
        /\ UNCHANGED <<serviceVars, guardVars, hashVars, unitVars>>

InitEditorPage ==
    /\ InitService
    /\ InitGuard
    /\ config \in ServiceConfigs
    /\ InitHash
    /\ InitUnit
    /\ InitEditor

Respond == \E m \in pending, o \in Outcomes : Deliver(m, o)

NextEditor ==
    \/ \E i \in EditorImages : SelectImage(i)
    \/ handleReset
    \/ \E empty \in BOOLEAN : applyTransformPreview(empty)
    \/ \E empty \in BOOLEAN : saveTransformVariant(empty)
    \/ Respond

SpecEditor == InitEditorPage /\ [][NextEditor]_vars

\* every fetch is answered in the end
SpecEditorLive == SpecEditor /\ WF_vars(Respond)

\* C26: when a response replaces the preview, it is the response of an
\* action that is not older than the action whose preview it replaces.
C26_NoStalePreview ==
    [][editor'.previewUrl # editor.previewUrl
          => editor'.previewUrl.action >= editor.previewUrl.action]_vars

\* C27: when isApplying or isSaving is set, both are false again at some
\* later time, every fetch being answered in the end.
C27_FlagsReturn ==
    (editor.isApplying \/ editor.isSaving) ~> (~editor.isApplying /\ ~editor.isSaving)

-----------------------------------------------------------------------------
(* buildWatermarkSvg (lines 614-656) called on its own                      *)

\* Math.floor(h * 0.35) and Math.ceil(n * 0.65): for the integers explored
\* the product in double precision has the floor and the ceiling of the
\* exact product
Floor035(h) == (35 * h) \div 100
Ceil065(n) == -((-65 * n) \div 100)

\* a box that is not fitted to the image
buildWatermarkSvgUnfitted(text, fontSize, imageWidth, imageHeight) ==
    LET dynamicFontSize == Min(fontSize, Max(8, Floor035(Max(1, imageHeight))))
    IN  [svgWidth |-> Max(1, Ceil065(Len(text) * dynamicFontSize) + 20),
         svgHeight |-> Max(dynamicFontSize + 16, 24),
         fontSize |-> dynamicFontSize,
         y |-> Max(dynamicFontSize, 12)]

\* buildWatermarkSvg (lines 614-656): the numbers written into the SVG
buildWatermarkSvg(text, fontSize, imageWidth, imageHeight) ==
    LET safeImageWidth == Max(1, imageWidth)
        safeImageHeight == Max(1, imageHeight)
        dynamicFontSize == Min(fontSize, Max(8, Floor035(safeImageHeight)))
        estimatedTextWidth == Max(1, Ceil065(Len(text) * dynamicFontSize) + 20)
    IN  [svgWidth |-> Min(estimatedTextWidth, safeImageWidth),
         svgHeight |-> Min(Max(dynamicFontSize + 16, 24), safeImageHeight),
         fontSize |-> dynamicFontSize,
         y |-> Max(dynamicFontSize, 12)]

WatermarkTexts == {<<>>, <<"a">>, <<"a", "&", "b">>, <<"S", "a", "m", "p", "l", "e">>}

WatermarkFontSizes == {-4, 0, 1, 8, 12, 28, 96}

WatermarkWidths == {1, 5, 27, 40, 100}

WatermarkHeights == {1, 10, 23, 24, 26, 40, 100}

InitWatermark ==
    /\ InitService
    /\ InitEditor
    /\ InitGuard
    /\ config \in ServiceConfigs
    /\ InitHash
    /\ callIn \in { [method |-> "buildWatermarkSvg", args |-> <<t, f, w, h>>, result |-> <<>>] :
                       t \in WatermarkTexts, f \in WatermarkFontSizes,
                       w \in WatermarkWidths, h \in WatermarkHeights }
    /\ callOut = NoCall

\* this.buildWatermarkSvg(text, fontSize, opacity, info.width, info.height)
\* (lines 449-455)
WatermarkCall ==
    /\ callIn.method = "buildWatermarkSvg"
    /\ callOut = NoCall
    /\ callOut' = [callIn EXCEPT !.result =
                     buildWatermarkSvg(callIn.args[1], callIn.args[2],
                                       callIn.args[3], callIn.args[4])]
    /\ UNCHANGED <<callIn, serviceVars, guardVars, hashVars, editorVars>>

NextWatermark == WatermarkCall

SpecWatermark == InitWatermark /\ [][NextWatermark]_vars

\* C28: for every text, font size asked for and image of width W >= 1 and
\* height H >= 1, the box of the watermark is at least 1 and at most W wide,
\* at least 1 and at most H high, and the font size written is at most the
\* greater of 8 and the integer part of 0.35 * H.
C28_WatermarkFits ==
    callOut.method = "buildWatermarkSvg"
       => LET W == callOut.args[3]
              H == callOut.args[4]
              box == callOut.result
          IN  /\ 1 <= box.svgWidth /\ box.svgWidth <= W
              /\ 1 <= box.svgHeight /\ box.svgHeight <= H
              /\ \/ box.fontSize <= 8
                 \/ 100 * box.fontSize <= 35 * H

\* a box has been built for a text too wide and a font too high for the
\* image: both were cut down
C28_Witness ==
    /\ callOut.method = "buildWatermarkSvg"
    /\ Len(callOut.args[1]) = 6
    /\ callOut.args[2] = 96
    /\ callOut.args[3] = 27
    /\ callOut.args[4] = 26
    /\ callOut.result.fontSize = 9
    /\ callOut.result.svgWidth = 27
    /\ callOut.result.svgHeight = 25

\* C29: every key of the limiter's map has a list of timestamps that is not
\* empty and has at most max(maxRequests, 1) entries, the minimum 1 being
\* the bound when the setting is not a number.
C29_ListsBounded ==
    \A k \in DOMAIN requestsByKey :
        /\ Len(requestsByKey[k]) >= 1
        /\ Len(requestsByKey[k]) <= IF EffectiveMax.nan THEN MinMaxRequests
                                     ELSE EffectiveMaxRequests

-----------------------------------------------------------------------------
(* Saves in every output format, on two resources                           *)

\* the file put under a presigned URL: what sharp(...).metadata() reports
FormatFiles == { [format |-> "png", width |-> 2, height |-> 2] }

NextFormats ==
    \/ \E u \in Uploaders, f \in Files : UploadImage(u, f)
    \/ \E u \in Uploaders : \E k \in PendingKeys(u), f \in FormatFiles : PutPending(u, k, f)
    \/ \E u \in Uploaders : \E k \in PendingKeys(u) : FinalizeUpload(u, k)
    \/ \E p \in Procs, u \in Uploaders, i \in UploadIdSet, d \in FormatDtos :
          AllIdle /\ ReceiveTransform(p, "save", u, i, d)
    \/ \E p \in Procs : FindOwnedImage(p)
    \/ \E p \in Procs : FetchAndTransform(p)
    \/ \E p \in Procs : UploadVariant(p)
    \/ \E p \in Procs : SaveDocument(p)

\* the limit is set so that it lets the saves explored pass
InitFormats ==
    /\ InitUploads
    /\ config.maxRequests = JsNumber(3)

SpecFormats == InitFormats /\ [][NextFormats]_vars

\* the variants of the documents, each with the id of its document
Recorded ==
    UNION { {<<i, images[i].variants[n]>> : n \in 1..Len(images[i].variants)} :
              i \in UploadIdSet }

\* C30: every variant a save has recorded has a format among jpeg, png,
\* webp, avif, the MIME type of that format as contentType and the key
\* images/variants/{imageId}/{hash}.{format}; variants of different images
\* or hashes have different keys, and no variant key is the key of an
\* original.
C30_VariantNaming ==
    \A x \in Recorded :
        LET i == x[1]
            v == x[2]
        IN  /\ v.format \in {"jpeg", "png", "webp", "avif"}
            /\ v.contentType = "image/" \o v.format
            /\ v.key = "images/variants/" \o i \o "/" \o v.hash \o "." \o v.format
            /\ \A y \in Recorded :
                  (y[1] # i \/ y[2].hash # v.hash) => y[2].key # v.key
            /\ \A j \in UploadIdSet : images[j].originalKey # v.key

\* the same body {format: jpg} has been saved for two images, one of them
\* a PNG finalized from a presigned upload, and an AVIF for the first
C30_Witness ==
    /\ <<"i1", "jpeg">> \in {<<x[1], x[2].format>> : x \in {y \in Recorded : y[2].hash = RequestHash(DtoJpg)}}
    /\ <<"i2", "jpeg">> \in {<<x[1], x[2].format>> : x \in {y \in Recorded : y[2].hash = RequestHash(DtoJpg)}}
    /\ <<"i1", "avif">> \in {<<x[1], x[2].format>> : x \in Recorded}
    /\ images["i2"].format = "png"
    /\ images["i2"].originalKey \in PendingKeys("u1")

=============================================================================
